---- MODULE Spec2Model ----
(***************************************************************************)
(* Model of the pm2-discord delivery engine: the MessageQueue class        *)
(* (dist/message-queue.mjs, first class in the file) and gracefulShutdown  *)
(* (src/shutdown.mts).  Time is in milliseconds.  A description is         *)
(* modelled by its length and by its text, kept as a sequence of pieces    *)
(* (slices of the submitted texts, "..." and line feeds); a message keeps  *)
(* the ids of the submitted messages it was combined from.  The webhook    *)
(* sender sendToDiscord (src/config.mts), loadConfig with its value        *)
(* conversion and isValidDiscordWebhookUrl are modelled beside the queue,  *)
(* each with a specification of its own; there a text is a sequence of     *)
(* characters.                                                             *)
(***************************************************************************)
EXTENDS Integers, Sequences, FiniteSets, TLC

\* ---------------------------------------------------------------- constants
WEBHOOK_RATE_LIMIT == 30
WEBHOOK_RATE_WINDOW_SECONDS == 60
DEFAULT_TICK_INTERVAL_MS == 100
MAX_RETRY_ATTEMPTS == 5
DISCORD_MESSAGE_CHAR_LIMIT == 2000
SHUTDOWN_TIMEOUT_MS == 5000
MAX_SHUTDOWN_ATTEMPTS == 50
SHUTDOWN_RETRY_DELAY_MS == 50
\* config.queue_max ?? 100
DEFAULT_QUEUE_MAX == 100

\* JS null, and the handle of a timeout that has already fired
Null == -1
Stale == -2

\* ------------------------------------------------------------------- bounds
MaxTime == 6000
MaxMsgs == 2
QueueMax == 2
MaxRateMessages == 12
MaxRateWindow == 12
MaxBackoffTimers == 2
\* the shutdown signal is explored in runs with at most this many submits
MaxSubmitsBeforeShutdown == 1
\* the sender needs at least this long to answer
MinLatencyMs == 1
\* longest source name and largest batch handed to getUserName
MaxNameLen == 2
MaxBatch == 3
\* labels of a host name
MaxLabels == 3

\* description lengths offered to addMessage: with buffering the lengths
\* that meet the character ceiling in each way, without it a short and an
\* oversized one
MsgLens(cfg) == IF cfg.buffer THEN {1, 1000, 2500} ELSE {1, 2500}
\* how far the clock may jump in one step when no timer is due earlier
TimeSteps == {1000}
\* retry_after values (already in ms) a 429 answer may carry
RetryAfterMs == {0, 3000}

\* configurations of the queue explored by the main specification
MainConfigs ==
  { [buffer |-> TRUE,  buffer_seconds |-> 5, queue_max |-> QueueMax,
     rate_limit_messages |-> 1, rate_limit_window_seconds |-> 1],
    [buffer |-> FALSE, buffer_seconds |-> 1, queue_max |-> QueueMax,
     rate_limit_messages |-> 1, rate_limit_window_seconds |-> 1] }

\* description lengths and configurations explored by the submit
\* specification: the lengths around the character limit, a buffer that
\* fills by count, one that does not, and no buffer
SubmitLens == {1, 1000, 1999, 2000, 2001, 2500}
SubmitConfigs ==
  { [buffer |-> TRUE,  buffer_seconds |-> 1, queue_max |-> DEFAULT_QUEUE_MAX,
     rate_limit_messages |-> 1, rate_limit_window_seconds |-> 1],
    [buffer |-> TRUE,  buffer_seconds |-> 1, queue_max |-> QueueMax,
     rate_limit_messages |-> 1, rate_limit_window_seconds |-> 1],
    [buffer |-> FALSE, buffer_seconds |-> 1, queue_max |-> QueueMax,
     rate_limit_messages |-> 1, rate_limit_window_seconds |-> 1] }

\* configurations explored by the constructor specification
CtorConfigs ==
  { [buffer |-> TRUE, buffer_seconds |-> 1, queue_max |-> QueueMax,
     rate_limit_messages |-> m, rate_limit_window_seconds |-> w] :
       m \in 1..MaxRateMessages, w \in 1..MaxRateWindow }

VARIABLES
  phase,            \* "new" (not constructed), "live", "exited" (process.exit)
  config,
  requestsPerTick, tickIntervalMs,
  messageQueue, requestHistory, flushInterval, isSending, webhookInvalid,
  bufferTimer, currentBuffer, backoffTimeout, rateLimitedUntil,
  characterCount, isShuttingDown,
  orphanBackoff,    \* pending backoff timeouts no longer referenced by the field
  inflight,         \* outstanding sender calls
  now,              \* Date.now()
  shutdown,         \* gracefulShutdown's position and locals
  nextId,           \* number of messages submitted so far
  hist,             \* history (ghost) variables used by the properties
  transport,        \* a call of the transport's functions: arguments and result
  startup           \* loadConfig and the check of the webhook URL at start-up

vars == <<phase, config, requestsPerTick, tickIntervalMs, messageQueue,
          requestHistory, flushInterval, isSending, webhookInvalid,
          bufferTimer, currentBuffer, backoffTimeout, rateLimitedUntil,
          characterCount, isShuttingDown, orphanBackoff, inflight, now,
          shutdown, nextId, hist, transport, startup>>

\* ------------------------------------------------------------------ helpers
Min(a, b) == IF a <= b THEN a ELSE b
Max(a, b) == IF a >= b THEN a ELSE b

RECURSIVE SumLen(_)
SumLen(s) == IF s = <<>> THEN 0 ELSE Head(s).len + SumLen(Tail(s))

RECURSIVE ConcatParts(_)
ConcatParts(s) == IF s = <<>> THEN <<>> ELSE Head(s).parts \o ConcatParts(Tail(s))

RECURSIVE FilterSeq(_, _, _)
FilterSeq(s, t, window) ==
  IF s = <<>> THEN <<>>
  ELSE IF (t - Head(s)) < window
       THEN <<Head(s)>> \o FilterSeq(Tail(s), t, window)
       ELSE FilterSeq(Tail(s), t, window)

RECURSIVE InsertSorted(_, _)
InsertSorted(s, x) ==
  IF s = <<>> THEN <<x>>
  ELSE IF x <= Head(s) THEN <<x>> \o s
       ELSE <<Head(s)>> \o InsertSorted(Tail(s), x)

RemoveAt(s, i) == SubSeq(s, 1, i - 1) \o SubSeq(s, i + 1, Len(s))

\* ------------------------------------------------------------------ strings
\* A string is a sequence of pieces.  A piece is the characters from..to of
\* a source text: the description submitted as message `of`, which has
\* `size` characters, or one of the literals "..." and "\n" (of = 0).
Slice(id, n, a, b) ==
  [src |-> "description", of |-> id, size |-> n, from |-> a, to |-> b]
Ellipsis == [src |-> "...", of |-> 0, size |-> 3, from |-> 1, to |-> 3]
LineFeed == [src |-> "LF", of |-> 0, size |-> 1, from |-> 1, to |-> 1]

\* the description of the message object submitted as id, n characters long
Description(id, n) == IF n = 0 THEN <<>> ELSE <<Slice(id, n, 1, n)>>

\* s.length
RECURSIVE StrLen(_)
StrLen(s) ==
  IF s = <<>> THEN 0 ELSE (Head(s).to - Head(s).from + 1) + StrLen(Tail(s))

\* s.substring(0, n)
RECURSIVE Substring(_, _)
Substring(s, n) ==
  IF s = <<>> \/ n <= 0 THEN <<>>
  ELSE LET p == Head(s)
           l == p.to - p.from + 1
       IN IF l <= n THEN <<p>> \o Substring(Tail(s), n - l)
          ELSE <<[p EXCEPT !.to = p.from + n - 1]>>

\* -------------------------------------------------------------- constructor
\* messages / windowSeconds, kept as an exact fraction <<num, den>>
UserRatePerSecond(cfg) == <<cfg.rate_limit_messages, cfg.rate_limit_window_seconds>>
WebhookMaxRatePerSecond == <<WEBHOOK_RATE_LIMIT, WEBHOOK_RATE_WINDOW_SECONDS>>

\* (variant) the configured rate used without the cap
SafeRatePerSecondUncapped(cfg) == UserRatePerSecond(cfg)

\* Math.min(userRatePerSecond, webhookMaxRatePerSecond)
SafeRatePerSecond(cfg) ==
  LET u == UserRatePerSecond(cfg)
      c == WebhookMaxRatePerSecond
  IN IF u[1] * c[2] <= c[1] * u[2] THEN u ELSE c

TickIntervalMsOf(cfg) ==
  LET s == SafeRatePerSecond(cfg)
  IN IF s[1] < s[2] THEN (1000 * s[2]) \div s[1]
     ELSE DEFAULT_TICK_INTERVAL_MS

RequestsPerTickOf(cfg) ==
  LET s == SafeRatePerSecond(cfg)
  IN IF s[1] < s[2] THEN 1
     ELSE Max(1, (s[1] * DEFAULT_TICK_INTERVAL_MS) \div (s[2] * 1000))

\* getEffectiveWindow()
EffectiveWindow == config.rate_limit_window_seconds * 1000

\* ------------------------------------------------ the queue object as a record
Obj ==
  [ messageQueue |-> messageQueue, requestHistory |-> requestHistory,
    flushInterval |-> flushInterval, isSending |-> isSending,
    webhookInvalid |-> webhookInvalid, bufferTimer |-> bufferTimer,
    currentBuffer |-> currentBuffer, backoffTimeout |-> backoffTimeout,
    rateLimitedUntil |-> rateLimitedUntil, characterCount |-> characterCount,
    isShuttingDown |-> isShuttingDown, orphanBackoff |-> orphanBackoff ]

Commit(S) ==
  /\ messageQueue' = S.messageQueue
  /\ requestHistory' = S.requestHistory
  /\ flushInterval' = S.flushInterval
  /\ isSending' = S.isSending
  /\ webhookInvalid' = S.webhookInvalid
  /\ bufferTimer' = S.bufferTimer
  /\ currentBuffer' = S.currentBuffer
  /\ backoffTimeout' = S.backoffTimeout
  /\ rateLimitedUntil' = S.rateLimitedUntil
  /\ characterCount' = S.characterCount
  /\ isShuttingDown' = S.isShuttingDown
  /\ orphanBackoff' = S.orphanBackoff

\* (variant) the backoff deadline ignored
CanSendNowAlways(S) == TRUE

\* canSendNow()
CanSendNow(S) == now >= S.rateLimitedUntil

\* getDelayUntilNextSend()
DelayUntilNextSend(S) ==
  IF now >= S.rateLimitedUntil THEN 0 ELSE S.rateLimitedUntil - now

\* (variant) the interval armed with the default tick period
NextTickAtDefault == now + DEFAULT_TICK_INTERVAL_MS

\* the time at which a newly armed interval first fires
NextTickAt == now + tickIntervalMs

\* (variant) arming the interval also re-opens the breaker
StartIntervalReopening(S) ==
  IF S.flushInterval # Null \/ S.isShuttingDown THEN S
  ELSE [S EXCEPT !.flushInterval = NextTickAt, !.webhookInvalid = FALSE]

\* startInterval()
StartInterval(S) ==
  IF S.flushInterval # Null \/ S.isShuttingDown THEN S
  ELSE [S EXCEPT !.flushInterval = NextTickAt]

\* (variant) the timeouts are cleared, the recurring tick is left running
StopIntervalTimeoutsOnly(S) ==
  [S EXCEPT !.bufferTimer = Null, !.backoffTimeout = Null]

\* stopInterval()
StopInterval(S) ==
  [S EXCEPT !.flushInterval = Null, !.bufferTimer = Null, !.backoffTimeout = Null]

\* beginShutdown()
BeginShutdownOp(S) == StopInterval([S EXCEPT !.isShuttingDown = TRUE])

\* length of currentBuffer.map(m => m.description || '').join('\n')
JoinLen(buf) == SumLen(buf) + (Len(buf) - 1)

\* (variant) the descriptions joined without a separator
RECURSIVE JoinDescriptionsNoSeparator(_)
JoinDescriptionsNoSeparator(buf) ==
  IF buf = <<>> THEN <<>>
  ELSE Head(buf).description \o JoinDescriptionsNoSeparator(Tail(buf))

\* currentBuffer.map(m => m.description || '').join('\n')
RECURSIVE JoinDescriptions(_)
JoinDescriptions(buf) ==
  IF buf = <<>> THEN <<>>
  ELSE IF Len(buf) = 1 THEN Head(buf).description
  ELSE Head(buf).description \o <<LineFeed>> \o JoinDescriptions(Tail(buf))

\* (variant) the combined message built from the first buffered message only
CombinedMessageFirstOnly(buf) ==
  [ id |-> buf[1].id, parts |-> buf[1].parts, len |-> buf[1].len,
    retry |-> 0, description |-> buf[1].description ]

\* the combined message flushBuffer() builds
CombinedMessage(buf) ==
  [ id |-> buf[1].id, parts |-> ConcatParts(buf), len |-> JoinLen(buf),
    retry |-> 0, description |-> JoinDescriptions(buf) ]

\* (variant) the running count is not reset
FlushBufferCountKept(S) ==
  IF Len(S.currentBuffer) = 0 THEN S
  ELSE LET S1 == [S EXCEPT
                    !.messageQueue = Append(@, CombinedMessage(S.currentBuffer)),
                    !.currentBuffer = <<>>]
       IN IF S1.flushInterval = Null THEN StartInterval(S1) ELSE S1

\* flushBuffer()
FlushBuffer(S) ==
  LET S0 == [S EXCEPT !.characterCount = 0]
  IN IF Len(S0.currentBuffer) = 0 THEN S0
     ELSE LET S1 == [S0 EXCEPT
                       !.messageQueue = Append(@, CombinedMessage(S0.currentBuffer)),
                       !.currentBuffer = <<>>]
          IN IF S1.flushInterval = Null THEN StartInterval(S1) ELSE S1

\* (variant) only the message count is tested
ShouldFlushBufferCountOnly(S) ==
  Len(S.currentBuffer) >= config.queue_max

\* shouldFlushBuffer()
ShouldFlushBuffer(S) ==
  \/ S.characterCount >= DISCORD_MESSAGE_CHAR_LIMIT
  \/ Len(S.currentBuffer) >= config.queue_max


\* (variant) the text cut at the limit before the dots are appended
TruncateDescriptionAtLimit(d) ==
  IF StrLen(d) > DISCORD_MESSAGE_CHAR_LIMIT
  THEN Substring(d, DISCORD_MESSAGE_CHAR_LIMIT) \o <<Ellipsis>>
  ELSE d

\* the description after the truncation in addMessage()
TruncateDescription(d) ==
  IF StrLen(d) > DISCORD_MESSAGE_CHAR_LIMIT
  THEN Substring(d, DISCORD_MESSAGE_CHAR_LIMIT - 3) \o <<Ellipsis>>
  ELSE d

\* a message object handed to addMessage(), after the truncation;
\* _retryAttempts is undefined (0)
NewMessage(id, len, d) ==
  [id |-> id, parts |-> <<id>>, len |-> len, retry |-> 0, description |-> d]

\* (variant) the joining newlines left out of the test
WouldExceedLimitNoNewlines(S, len) ==
  S.characterCount + len > DISCORD_MESSAGE_CHAR_LIMIT

\* (variant) the newline before the new message left out of the test
WouldExceedLimitOneNewlineShort(S, len) ==
  S.characterCount + (Len(S.currentBuffer) - 1) + len
    > DISCORD_MESSAGE_CHAR_LIMIT

\* the test made before appending to the buffer
WouldExceedLimit(S, len) ==
  S.characterCount + Len(S.currentBuffer) + len > DISCORD_MESSAGE_CHAR_LIMIT

\* (variant) no submit is turned away
SubmitRejectedNever(S) == FALSE

\* the first test of addMessage(): the message is ignored
SubmitRejected(S) == S.isShuttingDown

\* (variant) buffering on whatever is configured
BufferEnabledAlways == TRUE

\* const bufferEnabled = this.config.buffer ?? true
BufferEnabled == config.buffer

\* addMessage(message)
AddMessageOp(S, id, len0) ==
  IF SubmitRejected(S) THEN S
  ELSE
    LET d == TruncateDescription(Description(id, len0))
        len == StrLen(d)
        msg == NewMessage(id, len, d)
    IN IF BufferEnabled
       THEN LET S1 == IF WouldExceedLimit(S, len) THEN FlushBuffer(S) ELSE S
                S2 == [S1 EXCEPT !.currentBuffer = Append(@, msg),
                                 !.characterCount = @ + len]
            IN IF ShouldFlushBuffer(S2)
               THEN FlushBuffer([S2 EXCEPT !.bufferTimer = Null])
               ELSE IF ~S2.isShuttingDown
                    THEN [S2 EXCEPT !.bufferTimer = now + config.buffer_seconds * 1000]
                    ELSE [S2 EXCEPT !.bufferTimer = IF @ = Null THEN Null ELSE Stale]
       ELSE LET S1 == [S EXCEPT !.messageQueue = Append(@, msg)]
            IN IF S1.flushInterval = Null THEN StartInterval(S1) ELSE S1

\* ------------------------------------------------------------- processTick
\* (variant) the breaker left out of the test
TickSkippedIgnoreInvalid(S) == S.isSending \/ S.isShuttingDown

\* (variant) the in-flight flag left out of the test
TickSkippedIgnoreSending(S) == S.webhookInvalid \/ S.isShuttingDown

\* the first test of processTick(): the cycle returns at once
TickSkipped(S) == S.isSending \/ S.webhookInvalid \/ S.isShuttingDown

\* (variant) the backoff branch stops the tick and arms nothing
ArmBackoffStopOnly(S) ==
  IF S.flushInterval # Null THEN StopInterval(S) ELSE S

\* the backoff branch of processTick()
ArmBackoff(S) ==
  LET S1 == IF S.flushInterval # Null THEN StopInterval(S) ELSE S
  IN IF ~S1.isShuttingDown
     THEN [S1 EXCEPT
             !.orphanBackoff = IF S1.backoffTimeout # Null
                               THEN InsertSorted(@, S1.backoffTimeout) ELSE @,
             !.backoffTimeout = now + DelayUntilNextSend(S1)]
     ELSE S1

\* messageQueue.splice(0, requestsPerTick): the batch and what is left
TakeBatch(q) == SubSeq(q, 1, Min(requestsPerTick, Len(q)))
RestAfterBatch(q) == SubSeq(q, Min(requestsPerTick, Len(q)) + 1, Len(q))

\* (variant) the request is recorded, old entries are never removed
RecordOnly(h) == Append(h, now)

\* recordRequest() followed by cleanupRequestHistory()
RecordAndCleanup(h) == FilterSeq(Append(h, now), now, EffectiveWindow)

\* processTick() up to the await of the sender; batch is <<>> when the
\* sender is not called, branch names the path taken
ProcessTickOp(S) ==
  IF TickSkipped(S) THEN [S |-> S, batch |-> <<>>, branch |-> "skip"]
  ELSE IF ~CanSendNow(S)
       THEN [S |-> ArmBackoff(S), batch |-> <<>>, branch |-> "backoff"]
  ELSE IF Len(S.messageQueue) = 0
       THEN [S |-> StopInterval(S), batch |-> <<>>, branch |-> "empty"]
  ELSE LET b == TakeBatch(S.messageQueue)
           S1 == [S EXCEPT !.isSending = TRUE,
                           !.messageQueue = RestAfterBatch(@)]
       IN IF Len(b) = 0
          THEN [S |-> [S1 EXCEPT !.isSending = FALSE], batch |-> <<>>,
                branch |-> "empty"]
          ELSE [S |-> [S1 EXCEPT !.requestHistory = RecordAndCleanup(@)],
                batch |-> b, branch |-> "send"]

\* (variant) the message put back whatever its attempt count
RequeueOneNoCap(m, q) == <<[m EXCEPT !.retry = @ + 1]>> \o q

\* (variant) the message put back at the tail
RequeueOneAtTail(m, q) ==
  LET m2 == [m EXCEPT !.retry = @ + 1]
  IN IF m2.retry <= MAX_RETRY_ATTEMPTS THEN q \o <<m2>> ELSE q

\* (variant) the message put back with its attempt count unchanged
RequeueOneKeepCount(m, q) ==
  IF m.retry + 1 <= MAX_RETRY_ATTEMPTS THEN <<m>> \o q ELSE q

\* one iteration of messagesToSend.forEach(...): count the attempt, put the
\* message back at the front unless it exceeded the cap
RequeueOne(m, q) ==
  LET m2 == [m EXCEPT !.retry = @ + 1]
  IN IF m2.retry <= MAX_RETRY_ATTEMPTS THEN <<m2>> \o q ELSE q

RECURSIVE Requeue(_, _)
Requeue(b, q) ==
  IF b = <<>> THEN q ELSE Requeue(Tail(b), RequeueOne(Head(b), q))

\* what the sender may answer (sendToDiscord's result shapes), or throw
Results ==
  { [success |-> TRUE,  webhookInvalid |-> FALSE, rateLimited |-> FALSE,
     retryAfter |-> 0, throws |-> FALSE],
    [success |-> FALSE, webhookInvalid |-> TRUE,  rateLimited |-> FALSE,
     retryAfter |-> 0, throws |-> FALSE],
    [success |-> FALSE, webhookInvalid |-> FALSE, rateLimited |-> FALSE,
     retryAfter |-> 0, throws |-> FALSE],
    [success |-> FALSE, webhookInvalid |-> FALSE, rateLimited |-> FALSE,
     retryAfter |-> 0, throws |-> TRUE] }
  \cup
  { [success |-> FALSE, webhookInvalid |-> FALSE, rateLimited |-> TRUE,
     retryAfter |-> ra, throws |-> FALSE] : ra \in RetryAfterMs }

\* (variant) every answer treated as a failure
IsFailureResultAlways(r) == TRUE

\* (variant) every failed answer treated as a rate limit
IsBackoffResultAnyFailure(r) == ~r.success

\* (variant) every rate-limited answer sets the deadline, also one that
\* carries no wait
IsBackoffResultAnyRateLimit(r) == r.rateLimited

\* the batch is put back when the answer is one of the two failure branches
IsBackoffResult(r) == r.rateLimited /\ r.retryAfter # 0
IsFailureResult(r) == ~r.success

\* (variant) the deadline taken from the wait alone
BackoffUntilNoClock(r) == r.retryAfter

\* Date.now() + (result.retryAfter * 1000); r.retryAfter is in milliseconds
BackoffUntil(r) == now + r.retryAfter

\* (variant) the in-flight flag is cleared on the answered paths only, not
\* when the sender throws
CompleteOpNoFinally(S, batch, r) ==
  LET S1 ==
        IF r.throws THEN S
        ELSE IF r.webhookInvalid
             THEN StopInterval([S EXCEPT !.webhookInvalid = TRUE])
        ELSE IF IsBackoffResult(r)
             THEN [S EXCEPT !.rateLimitedUntil = BackoffUntil(r),
                            !.messageQueue = Requeue(batch, @)]
        ELSE IF IsFailureResult(r)
             THEN [S EXCEPT !.messageQueue = Requeue(batch, @)]
        ELSE S
  IN IF r.throws THEN S1 ELSE [S1 EXCEPT !.isSending = FALSE]

\* processTick() after the await: the branches on the result, then finally
CompleteOp(S, batch, r) ==
  LET S1 ==
        IF r.throws THEN S
        ELSE IF r.webhookInvalid
             THEN StopInterval([S EXCEPT !.webhookInvalid = TRUE])
        ELSE IF IsBackoffResult(r)
             THEN [S EXCEPT !.rateLimitedUntil = BackoffUntil(r),
                            !.messageQueue = Requeue(batch, @)]
        ELSE IF IsFailureResult(r)
             THEN [S EXCEPT !.messageQueue = Requeue(batch, @)]
        ELSE S
  IN [S1 EXCEPT !.isSending = FALSE]

\* -------------------------------------------------------- gracefulShutdown
\* (variant) the loop without the attempt cap
DrainContinuesNoAttemptCap(S, sd) ==
  Len(S.messageQueue) > 0 /\ ~S.webhookInvalid

\* the condition of the while loop
DrainContinues(S, sd) ==
  Len(S.messageQueue) > 0 /\ ~S.webhookInvalid
    /\ sd.attempts < MAX_SHUTDOWN_ATTEMPTS

\* one pass of the while loop, up to its first await
LoopIter(S, sd) ==
  IF DrainContinues(S, sd)
  THEN IF now - sd.startTime > SHUTDOWN_TIMEOUT_MS
       THEN [S |-> S, batch |-> <<>>, branch |-> "none",
             sd |-> [sd EXCEPT !.pc = "exit"]]
       ELSE LET R == ProcessTickOp(S)
            IN IF R.batch # <<>>
               THEN [S |-> R.S, batch |-> R.batch, branch |-> R.branch,
                     sd |-> [sd EXCEPT !.pc = "await"]]
               ELSE [S |-> R.S, batch |-> <<>>, branch |-> R.branch,
                     sd |-> [sd EXCEPT !.pc = "sleep", !.attempts = @ + 1,
                                       !.wake = now + SHUTDOWN_RETRY_DELAY_MS]]
  ELSE [S |-> S, batch |-> <<>>, branch |-> "none",
        sd |-> [sd EXCEPT !.pc = "exit"]]

\* ---------------------------------------------------------------- transport
\* A name is a sequence of characters; " " stands for the white space that
\* String.prototype.trim removes.
NameChars == {" ", "a"}
Names == UNION {[1..n -> NameChars] : n \in 0..MaxNameLen}
Batches == UNION {[1..k -> [name : Names]] : k \in 0..MaxBatch}

\* 'PM2 Discord Bot'
DEFAULT_USERNAME ==
  <<"P", "M", "2", " ", "D", "i", "s", "c", "o", "r", "d", " ", "B", "o", "t">>

\* ', '
NAME_SEPARATOR == <<",", " ">>

RECURSIVE TrimStart(_)
TrimStart(s) ==
  IF s # <<>> /\ Head(s) = " " THEN TrimStart(Tail(s)) ELSE s

RECURSIVE TrimEnd(_)
TrimEnd(s) ==
  IF s # <<>> /\ s[Len(s)] = " " THEN TrimEnd(SubSeq(s, 1, Len(s) - 1)) ELSE s

\* (variant) only the leading white space removed
TrimLeadingOnly(s) == TrimStart(s)

\* msg.name.trim()
Trim(s) == TrimEnd(TrimStart(s))

\* messages.map(msg => msg.name.trim()).filter(name => name.length > 0)
RECURSIVE TrimmedNames(_)
TrimmedNames(messages) ==
  IF messages = <<>> THEN <<>>
  ELSE LET t == Trim(Head(messages).name)
       IN (IF Len(t) > 0 THEN <<t>> ELSE <<>>) \o TrimmedNames(Tail(messages))

\* new Set(names): the elements in the order of their first insertion
RECURSIVE SetOf(_, _)
SetOf(names, acc) ==
  IF names = <<>> THEN acc
  ELSE SetOf(Tail(names),
             IF \E i \in 1..Len(acc) : acc[i] = Head(names)
             THEN acc ELSE Append(acc, Head(names)))

\* Array.from(names).join(', ')
RECURSIVE JoinNames(_)
JoinNames(names) ==
  IF names = <<>> THEN <<>>
  ELSE IF Len(names) = 1 THEN Head(names)
  ELSE Head(names) \o NAME_SEPARATOR \o JoinNames(Tail(names))

\* getUserName(messages)
GetUserName(messages) ==
  LET joined == JoinNames(SetOf(TrimmedNames(messages), <<>>))
  IN IF joined = <<>> THEN DEFAULT_USERNAME ELSE joined

\* ----------------------------------------------------------- sendToDiscord
FETCH_TIMEOUT_MS == 5000

\* Numbers read from the response are kept in thousandths (1.5 is 1500), so
\* that a wait in seconds is the same number as the wait in milliseconds.
NaN == -3
Undefined == -4

\* A text is a sequence of characters.
DigitValue ==
  ("0" :> 0) @@ ("1" :> 1) @@ ("2" :> 2) @@ ("3" :> 3) @@ ("4" :> 4) @@
  ("5" :> 5) @@ ("6" :> 6) @@ ("7" :> 7) @@ ("8" :> 8) @@ ("9" :> 9)

\* the longest prefix of s made of decimal digits
RECURSIVE LeadingDigits(_)
LeadingDigits(s) ==
  IF s # <<>> /\ Head(s) \in DOMAIN DigitValue
  THEN <<Head(s)>> \o LeadingDigits(Tail(s))
  ELSE <<>>

RECURSIVE DecimalValue(_, _)
DecimalValue(ds, acc) ==
  IF ds = <<>> THEN acc
  ELSE DecimalValue(Tail(ds), 10 * acc + DigitValue[Head(ds)])

\* parseInt(s, 10), for a text without sign or leading white space
ParseInt(s) ==
  LET ds == LeadingDigits(s)
  IN IF ds = <<>> THEN NaN ELSE 1000 * DecimalValue(ds, 0)

\* parseFloat(s), for a text without sign, exponent or leading white space
ParseFloat(s) ==
  LET ip == LeadingDigits(s)
      rest == SubSeq(s, Len(ip) + 1, Len(s))
      fp == IF rest # <<>> /\ Head(rest) = "." THEN LeadingDigits(Tail(rest))
            ELSE <<>>
      \* the digits after the point as thousandths; further digits are dropped
      thousandths == DecimalValue(SubSeq(fp \o <<"0", "0", "0">>, 1, 3), 0)
  IN IF ip = <<>> /\ fp = <<>> THEN NaN
     ELSE 1000 * DecimalValue(ip, 0) + thousandths

\* Headers: a function from the names of the headers present to their texts.
\* headers.get(name) is truthy when the header is there with a non-empty text
Truthy(headers, name) == name \in DOMAIN headers /\ headers[name] # <<>>

\* parseRateLimitHeaders(headers); an undefined bucket is the empty text,
\* which `headers.get(..) || undefined` never yields as a bucket
ParseRateLimitHeaders(headers) ==
  [ limit      |-> IF Truthy(headers, "x-ratelimit-limit")
                   THEN ParseInt(headers["x-ratelimit-limit"]) ELSE Undefined,
    remaining  |-> IF Truthy(headers, "x-ratelimit-remaining")
                   THEN ParseInt(headers["x-ratelimit-remaining"]) ELSE Undefined,
    reset      |-> IF Truthy(headers, "x-ratelimit-reset")
                   THEN ParseInt(headers["x-ratelimit-reset"]) ELSE Undefined,
    resetAfter |-> IF Truthy(headers, "x-ratelimit-reset-after")
                   THEN ParseFloat(headers["x-ratelimit-reset-after"])
                   ELSE Undefined,
    bucket     |-> IF Truthy(headers, "x-ratelimit-bucket")
                   THEN headers["x-ratelimit-bucket"] ELSE <<>> ]

\* rateLimitInfo: {}
NoRateLimitInfo == [n \in {} |-> Undefined]

\* res.statusText
StatusText ==
  (200 :> "OK") @@ (201 :> "Created") @@ (204 :> "No Content") @@
  (400 :> "Bad Request") @@ (404 :> "Not Found") @@
  (429 :> "Too Many Requests") @@ (500 :> "Internal Server Error")

\* `HTTP ${res.status}: ${res.statusText}`
HttpError(res) == <<"HTTP ", res.status, ": ", StatusText[res.status]>>

\* A body is what res.json() gives: it rejects (parses = FALSE) or resolves
\* to an object, a function from the fields present to their values.
\* retryAfter of the 429 branch: `body.retry_after || 0`, and in the catch of
\* res.json() the header, `get('retry-after') ? parseFloat(..) : 0`
RetryAfterOf(res) ==
  IF res.body.parses
  THEN IF /\ "retry_after" \in DOMAIN res.body.value
          /\ res.body.value["retry_after"] # 0
       THEN res.body.value["retry_after"] ELSE 0
  ELSE IF Truthy(res.headers, "retry-after")
       THEN ParseFloat(res.headers["retry-after"]) ELSE 0

\* isGlobal of the 429 branch: `body.global || false`, then the header
IsGlobalOf(res) ==
  \/ /\ res.body.parses
     /\ "global" \in DOMAIN res.body.value
     /\ res.body.value["global"]
  \/ Truthy(res.headers, "x-ratelimit-global")

\* the 429 branch, after res.json() has settled
RateLimitedResult(res) ==
  [ success |-> FALSE, rateLimited |-> TRUE, retryAfter |-> RetryAfterOf(res),
    isGlobal |-> IsGlobalOf(res),
    rateLimitInfo |-> ParseRateLimitHeaders(res.headers) ]

\* res.status === 204
IsSuccessStatus(status) == status = 204

\* the branches on res.status other than 429
StatusResult(res) ==
  IF IsSuccessStatus(res.status)
  THEN [ success |-> TRUE,
         rateLimitInfo |-> ParseRateLimitHeaders(res.headers) ]
  ELSE IF res.status = 404
  THEN [ success |-> FALSE, webhookInvalid |-> TRUE, error |-> HttpError(res),
         rateLimitInfo |-> ParseRateLimitHeaders(res.headers) ]
  ELSE [ success |-> FALSE, error |-> HttpError(res),
         rateLimitInfo |-> ParseRateLimitHeaders(res.headers) ]

\* (variant) only the timeout is caught, any other error is thrown on
CatchBlockOnlyTimeout(error) ==
  IF error.name = "AbortError"
  THEN [ settled |-> "resolved",
         result |-> [ success |-> FALSE, error |-> <<"Webhook request timeout">>,
                      rateLimited |-> FALSE, rateLimitInfo |-> NoRateLimitInfo ] ]
  ELSE [ settled |-> "rejected", result |-> <<>> ]

\* catch (error) { ... }
CatchBlock(error) ==
  IF error.name = "AbortError"
  THEN [ settled |-> "resolved",
         result |-> [ success |-> FALSE, error |-> <<"Webhook request timeout">>,
                      rateLimited |-> FALSE, rateLimitInfo |-> NoRateLimitInfo ] ]
  ELSE [ settled |-> "resolved",
         result |-> [ success |-> FALSE, error |-> <<error.message>>,
                      rateLimited |-> FALSE, rateLimitInfo |-> NoRateLimitInfo ] ]

\* { content: messages.map(msg => msg.description || '').join('\n'),
\*   username: getUserName(messages) }
Payload(messages) ==
  [ content |-> JoinDescriptions(messages), username |-> GetUserName(messages) ]

\* ------------------------------------------- what the webhook may answer
NoHeaders == [n \in {} |-> <<>>]

HeaderSets ==
  LET RetryAfterHeaders ==
        { NoHeaders,
          "retry-after" :> <<"0">>,
          "retry-after" :> <<"3">>,
          "retry-after" :> <<"1", ".", "5">>,
          "retry-after" :> <<"s", "o", "o", "n">> }
      GlobalHeaders ==
        { NoHeaders, "x-ratelimit-global" :> <<"t", "r", "u", "e">> }
      InfoHeaders ==
        { NoHeaders,
          ("x-ratelimit-limit" :> <<"5">>) @@
          ("x-ratelimit-remaining" :> <<"0">>),
          ("x-ratelimit-limit" :> <<"5">>) @@
          ("x-ratelimit-remaining" :> <<"3">>) @@
          ("x-ratelimit-reset" :> <<"1", "2">>) @@
          ("x-ratelimit-reset-after" :> <<"1", ".", "5">>) @@
          ("x-ratelimit-bucket" :> <<"b">>) }
  IN { ra @@ g @@ i : ra \in RetryAfterHeaders, g \in GlobalHeaders,
                      i \in InfoHeaders }

\* the body of an answer whose res.json() rejects
InvalidBody == [parses |-> FALSE, value |-> [n \in {} |-> 0]]

\* the answers: a status, headers and, read only for a 429, a body
Responses ==
  LET NoFields == [n \in {} |-> 0]
      JsonBodies ==
        { [parses |-> TRUE, value |-> ra @@ g] :
            ra \in { NoFields, "retry_after" :> 0, "retry_after" :> 3000,
                     "retry_after" :> 5250 },
            g \in { NoFields, "global" :> FALSE, "global" :> TRUE } }
  IN { [status |-> s, headers |-> h, body |-> b] :
         s \in DOMAIN StatusText \ {429}, h \in HeaderSets,
         b \in {InvalidBody} }
     \cup
     { [status |-> 429, headers |-> h, body |-> b] :
         h \in HeaderSets, b \in JsonBodies \cup {InvalidBody} }

NoFetch ==
  [ latency |-> 0, throws |-> FALSE, message |-> "",
    response |-> [status |-> 0, headers |-> NoHeaders, body |-> InvalidBody] ]

\* a call of fetch(): the answer, or the error it rejects with, and how long
\* the webhook takes
Fetches ==
  LET Latencies == {1, FETCH_TIMEOUT_MS + 1}
  IN { [latency |-> l, throws |-> FALSE, message |-> "", response |-> r] :
         l \in Latencies, r \in Responses }
     \cup
     { [NoFetch EXCEPT !.latency = l, !.throws = TRUE,
                       !.message = "Network error"] : l \in Latencies }

\* -------------------------------------------------------------- loadConfig
MIN_BUFFER_SECONDS == 1
MAX_BUFFER_SECONDS == 5
MIN_QUEUE_MAX == 10
MAX_QUEUE_MAX == 100

\* the keys of defaultConfig the queue reads
defaultConfig ==
  [ buffer |-> TRUE, buffer_seconds |-> 1, queue_max |-> 100,
    rate_limit_messages |-> 30, rate_limit_window_seconds |-> 60 ]

\* clamp(num, min, max)
Clamp(num, min, max) == Min(Max(num, min), max)

\* a value JSON.parse gives for a key: typeof, and the number, text or boolean
JsonValue(type, num, text, bool) ==
  [type |-> type, num |-> num, text |-> text, bool |-> bool]

JsonNull == JsonValue("object", 0, <<>>, FALSE)

\* Number(s) of a trimmed text without sign, point or exponent: the empty
\* text is 0, a text of digits its value, any other text NaN
ToNumber(s) ==
  IF s = <<>> THEN 0
  ELSE IF LeadingDigits(s) = s THEN DecimalValue(s, 0)
  ELSE NaN

\* s.toLowerCase()
ToLowerCase(s) ==
  LET LowerOf == ("T" :> "t") @@ ("R" :> "r") @@ ("U" :> "u") @@ ("E" :> "e")
  IN [i \in 1..Len(s) |->
        IF s[i] \in DOMAIN LowerOf THEN LowerOf[s[i]] ELSE s[i]]

\* convertConfigValue(key, value); `defined` is false for undefined
ConvertConfigValue(key, value) ==
  LET booleanKeys == {"buffer"}
      numericKeys == {"buffer_seconds", "queue_max", "rate_limit_messages",
                      "rate_limit_window_seconds"}
      \* const num = Number(value.trim()); return isNaN(num) ? undefined : num
      num == ToNumber(Trim(value.text))
  IN IF key \in booleanKeys
     THEN [ defined |-> TRUE,
            value |-> IF value.type = "boolean" THEN value.bool
                      ELSE IF value.type = "string"
                           THEN LET lower == Trim(ToLowerCase(value.text))
                                IN lower = <<"t", "r", "u", "e">>
                                   \/ lower = <<"1">>
                      ELSE value.type = "number" /\ value.num # 0 ]
     ELSE IF key \in numericKeys /\ value.type = "number"
     THEN [defined |-> TRUE, value |-> value.num]
     ELSE IF key \in numericKeys /\ value.type = "string"
     THEN IF num = NaN THEN [defined |-> FALSE, value |-> 0]
          ELSE [defined |-> TRUE, value |-> num]
     ELSE [defined |-> FALSE, value |-> 0]

\* the environment variable: unset, not JSON, JSON that is not an object, or
\* an object (a function from the keys present to their values)
NoKeys == [k \in {} |-> JsonNull]

\* { ...defaultConfig, ...moduleConfig } and the two clamps
FinalConfig(env) ==
  LET rawConfig == IF env.kind = "object" THEN env.fields ELSE NoKeys
      merged == [ key \in DOMAIN defaultConfig |->
                    IF /\ key \in DOMAIN rawConfig
                       /\ ConvertConfigValue(key, rawConfig[key]).defined
                    THEN ConvertConfigValue(key, rawConfig[key]).value
                    ELSE defaultConfig[key] ]
  IN [merged EXCEPT
        !.buffer_seconds = Clamp(@, MIN_BUFFER_SECONDS, MAX_BUFFER_SECONDS),
        !.queue_max = Clamp(@, MIN_QUEUE_MAX, MAX_QUEUE_MAX)]

\* loadConfig(): the cached value when there is one
LoadConfigOp(cachedConfig, env) ==
  IF cachedConfig.set THEN cachedConfig.value ELSE FinalConfig(env)

\* what the environment variable may hold; NumericValues is what may be
\* configured for a numeric key
Envs ==
  LET NumericValues ==
        { JsonValue("number", 0, <<>>, FALSE),
          JsonValue("number", 3, <<>>, FALSE),
          JsonValue("number", 50, <<>>, FALSE),
          JsonValue("number", 1000, <<>>, FALSE),
          JsonValue("string", 0, <<" ", "5", "0", " ">>, FALSE),
          JsonValue("string", 0, <<"a", "b", "c">>, FALSE),
          JsonValue("string", 0, <<>>, FALSE),
          JsonNull }
      BufferValues ==
        { JsonValue("string", 0, <<"T", "R", "U", "E">>, FALSE),
          JsonValue("boolean", 0, <<>>, FALSE) }
  IN { [kind |-> k, fields |-> NoKeys] :
         k \in {"unset", "malformed", "nonobject"} }
     \cup
     { [kind |-> "object", fields |-> b @@ s @@ q] :
         b \in {NoKeys} \cup {"buffer" :> v : v \in BufferValues},
         s \in {NoKeys} \cup {"buffer_seconds" :> v : v \in NumericValues},
         q \in {NoKeys} \cup {"queue_max" :> v : v \in NumericValues} }

\* ------------------------------------------------- isValidDiscordWebhookUrl
\* s.includes(sub)
Includes(s, sub) ==
  \E i \in 0..(Len(s) - Len(sub)) : SubSeq(s, i + 1, i + Len(sub)) = sub

\* s.indexOf(c) + 1 for a character c: the first position of c in s, else 0
IndexOf(s, c) ==
  IF \E i \in 1..Len(s) : s[i] = c
  THEN CHOOSE i \in 1..Len(s) : s[i] = c /\ \A j \in 1..(i - 1) : s[j] # c
  ELSE 0

RECURSIVE SkipSlashes(_)
SkipSlashes(s) ==
  IF s # <<>> /\ Head(s) = "/" THEN SkipSlashes(Tail(s)) ELSE s

\* new URL(url) for the schemes http and https, without user info, query or
\* fragment: scheme ":" slashes host [":" port] [path]; ok is false where
\* the constructor throws
ParseUrl(url) ==
  LET t == Trim(url)
      colon == IndexOf(t, ":")
      scheme == SubSeq(t, 1, colon - 1)
      authority == SkipSlashes(SubSeq(t, colon + 1, Len(t)))
      slash == IndexOf(authority, "/")
      host == IF slash = 0 THEN authority ELSE SubSeq(authority, 1, slash - 1)
      port == IndexOf(host, ":")
      hostname == IF port = 0 THEN host ELSE SubSeq(host, 1, port - 1)
      pathname == IF slash = 0 THEN <<"/">>
                  ELSE SubSeq(authority, slash, Len(authority))
  IN IF \/ colon <= 1
        \/ Includes(scheme, <<" ">>) \/ Includes(scheme, <<"/">>)
        \/ hostname = <<>> \/ Includes(hostname, <<" ">>)
     THEN [ ok |-> FALSE, protocol |-> <<>>, hostname |-> <<>>,
            pathname |-> <<>> ]
     ELSE [ ok |-> TRUE, protocol |-> scheme \o <<":">>, hostname |-> hostname,
            pathname |-> pathname ]

HTTPS_PROTOCOL == <<"h", "t", "t", "p", "s", ":">>
DISCORD_COM == <<"d", "i", "s", "c", "o", "r", "d", ".", "c", "o", "m">>
DISCORDAPP_COM == <<"d", "i", "s", "c", "o", "r", "d", "a", "p", "p", ".", "c", "o", "m">>
TEST_LOCALHOST == <<"h", "t", "t", "p", ":", "/", "/", "1", "2", "7", ".", "0", ".", "0", ".", "1">>

\* isValidDiscordWebhookUrl(url), with isTestEnv for
\* process.env['NODE_ENV'] === 'test'
IsValidDiscordWebhookUrl(url, isTestEnv) ==
  IF ~url.isString \/ Trim(url.text) = <<>> THEN FALSE
  ELSE IF isTestEnv /\ Includes(url.text, TEST_LOCALHOST) THEN TRUE
  ELSE LET parsed == ParseUrl(url.text)
       IN IF ~parsed.ok THEN FALSE
          ELSE IF parsed.protocol # HTTPS_PROTOCOL THEN FALSE
          ELSE IF /\ ~Includes(parsed.hostname, DISCORD_COM)
                  /\ ~Includes(parsed.hostname, DISCORDAPP_COM)
               THEN FALSE
          ELSE IF parsed.pathname = <<>> \/ parsed.pathname = <<"/">> THEN FALSE
          ELSE TRUE

\* The URLs tried: a scheme, a host of up to MaxLabels labels and a path,
\* written out as a text.  The parts are kept beside the text.
LabelText ==
  ("discord" :> <<"d", "i", "s", "c", "o", "r", "d">>) @@
  ("discordapp" :> <<"d", "i", "s", "c", "o", "r", "d", "a", "p", "p">>) @@
  ("mydiscord" :> <<"m", "y", "d", "i", "s", "c", "o", "r", "d">>) @@
  ("com" :> <<"c", "o", "m">>) @@
  ("evil" :> <<"e", "v", "i", "l">>)

\* labels.join('.')
RECURSIVE HostText(_)
HostText(labels) ==
  IF Len(labels) = 1 THEN LabelText[labels[1]]
  ELSE LabelText[Head(labels)] \o <<".">> \o HostText(Tail(labels))

\* the text of a URL with these parts
UrlOf(scheme, labels, path) ==
  LET SchemeText == ("https" :> <<"h", "t", "t", "p", "s">>) @@
                    ("http" :> <<"h", "t", "t", "p">>)
  IN [ isString |-> TRUE, scheme |-> scheme, labels |-> labels, path |-> path,
       text |-> (IF scheme = "" THEN <<>>
                 ELSE SchemeText[scheme] \o <<":", "/", "/">>)
                \o HostText(labels) \o path ]

\* the URLs tried, and null, '', '   ', 'not a url' and
\* 'http://127.0.0.1:3000/webhook'
Urls ==
  LET HostLabels == UNION {[1..n -> DOMAIN LabelText] : n \in 1..MaxLabels}
      PathTexts == { <<>>, <<"/">>, <<"/", "w", "/", "1">> }
      NoParts == [ isString |-> TRUE, scheme |-> "", labels |-> <<>>,
                   path |-> <<>>, text |-> <<>> ]
  IN { UrlOf(s, l, p) : s \in {"https", "http", ""}, l \in HostLabels,
                        p \in PathTexts }
     \cup
     { [NoParts EXCEPT !.isString = FALSE],
       NoParts,
       [NoParts EXCEPT !.text = <<" ", " ", " ">>],
       [NoParts EXCEPT !.text = <<"n", "o", "t", " ", "a", " ", "u", "r", "l">>],
       [NoParts EXCEPT !.scheme = "http",
                       !.path = <<"/", "w", "e", "b", "h", "o", "o", "k">>,
                       !.text = TEST_LOCALHOST \o <<":", "3", "0", "0", "0">>
                                \o <<"/", "w", "e", "b", "h", "o", "o", "k">>] }

\* nothing of the start-up is being followed
StartupIdle ==
  [ pc |-> "idle", env |-> [kind |-> "unset", fields |-> NoKeys],
    source |-> [kind |-> "unset", fields |-> NoKeys],
    cachedConfig |-> [set |-> FALSE, value |-> defaultConfig], config |-> defaultConfig,
    url |-> [isString |-> FALSE, scheme |-> "", labels |-> <<>>,
             path |-> <<>>, text |-> <<>>],
    isTestEnv |-> FALSE, valid |-> FALSE ]

\* ------------------------------------------------------- history variables
MsgIds == 1..MaxMsgs

SeqRange(s) == {s[i] : i \in 1..Len(s)}
BatchIds(b) == {b[i].id : i \in 1..Len(b)}
BatchParts(b) == UNION {SeqRange(b[i].parts) : i \in 1..Len(b)}

RECURSIVE NewIds(_, _)
NewIds(q, seen) ==
  IF q = <<>> THEN <<>>
  ELSE IF Head(q).id \in seen THEN NewIds(Tail(q), seen)
       ELSE <<Head(q).id>> \o NewIds(Tail(q), seen \cup {Head(q).id})

\* ids in the order in which they entered the dispatch queue; raced holds
\* those that entered while a sender call was outstanding
HistEnter(h, S, batch) ==
  LET new == NewIds(batch \o S.messageQueue, SeqRange(h.entered))
  IN [h EXCEPT !.entered = @ \o new,
               !.raced = IF inflight # {} THEN @ \cup SeqRange(new) ELSE @]

\* a dispatch cycle took the given path of processTick()
HistCycle(h, branch) ==
  [h EXCEPT !.lastCycle = IF branch = "none" THEN @ ELSE branch]

\* a batch is handed to the sender
HistCall(h, batch, byShutdown) ==
  [h EXCEPT !.lastCallAt = now,
            !.calls = [i \in MsgIds |-> IF i \in BatchIds(batch) THEN @[i] + 1 ELSE @[i]],
            !.drainSent = @ \/ byShutdown]

\* the answer r settles the fate of a message that has had f failed
\* answers before (it will not be requeued by a correct queue)
Settles(r, f) ==
  r.throws \/ r.webhookInvalid \/ r.success \/ f + 1 > MAX_RETRY_ATTEMPTS

\* the sender has answered r for the batch; the counters of a message follow
\* it while it may still be retried and are cleared when its fate is settled
HistAnswer(h, batch, r) ==
  [h EXCEPT !.got404 = @ \/ (~r.throws /\ r.webhookInvalid),
            !.delivered = IF ~r.throws /\ r.success THEN @ \cup BatchParts(batch) ELSE @,
            !.capped = @ \cup {i \in BatchIds(batch) :
                                 ~r.throws /\ ~r.webhookInvalid /\ ~r.success
                                 /\ h.fails[i] + 1 > MAX_RETRY_ATTEMPTS},
            !.fails = [i \in MsgIds |->
                         IF i \in BatchIds(batch)
                         THEN (IF Settles(r, @[i]) THEN 0 ELSE @[i] + 1)
                         ELSE @[i]],
            !.calls = [i \in MsgIds |->
                         IF i \in BatchIds(batch) /\ Settles(r, h.fails[i])
                         THEN 0 ELSE @[i]]]

\* the clock moves to t: a call older than one tick interval is forgotten
HistClock(h, t) ==
  [h EXCEPT !.lastCallAt = IF @ # Null /\ t - @ >= tickIntervalMs THEN Null ELSE @]

HistInit ==
  [ got404 |-> FALSE, lastCallAt |-> Null, delivered |-> {}, capped |-> {},
    entered |-> <<>>, raced |-> {}, lastCycle |-> "none",
    calls |-> [i \in MsgIds |-> 0], fails |-> [i \in MsgIds |-> 0],
    drainOne |-> FALSE, drainSent |-> FALSE ]

\* ---------------------------------------------------------------- initial
ShutdownInit == [pc |-> "idle", startTime |-> 0, attempts |-> 0, wake |-> Null]

InitObj ==
  /\ messageQueue = <<>>
  /\ requestHistory = <<>>
  /\ flushInterval = Null
  /\ isSending = FALSE
  /\ webhookInvalid = FALSE
  /\ bufferTimer = Null
  /\ currentBuffer = <<>>
  /\ backoffTimeout = Null
  /\ rateLimitedUntil = 0
  /\ characterCount = 0
  /\ isShuttingDown = FALSE
  /\ orphanBackoff = <<>>
  /\ inflight = {}
  /\ now = 0
  /\ shutdown = ShutdownInit
  /\ nextId = 0
  /\ hist = HistInit

\* no call of the transport's functions is being followed
TransportIdle ==
  [ pc |-> "idle", messages |-> <<>>, username |-> <<>>, content |-> <<>>,
    discord_url |-> "", fetch |-> NoFetch, elapsed |-> 0,
    settled |-> "pending", result |-> <<>> ]

\* the state after new MessageQueue(config, sender)
Init ==
  /\ transport = TransportIdle
  /\ startup = StartupIdle
  /\ phase = "live"
  /\ config \in MainConfigs
  /\ requestsPerTick = RequestsPerTickOf(config)
  /\ tickIntervalMs = TickIntervalMsOf(config)
  /\ InitObj

\* ----------------------------------------------------------------- actions
Live == phase = "live"

\* run one processTick() for the given caller and record the call it makes
RunCycle(S, caller) ==
  LET R == ProcessTickOp(S)
  IN /\ Commit(R.S)
     /\ inflight' = IF R.batch # <<>>
                    THEN inflight \cup {[batch |-> R.batch, caller |-> caller, at |-> now]}
                    ELSE inflight
     /\ hist' = LET h == HistCycle(hist, R.branch)
                IN IF R.batch # <<>>
                   THEN HistCall(HistEnter(h, R.S, R.batch), R.batch, FALSE)
                   ELSE HistEnter(h, R.S, <<>>)

\* addMessage(message) called by the log/event handlers
AddMessage(len) ==
  /\ Live
  /\ nextId < MaxMsgs
  /\ LET S == AddMessageOp(Obj, nextId + 1, len)
     IN /\ Commit(S)
        /\ hist' = HistEnter(hist, S, <<>>)
  /\ nextId' = nextId + 1
  /\ UNCHANGED <<transport, startup, phase, config, requestsPerTick, tickIntervalMs, inflight, now, shutdown>>

\* the setInterval callback of startInterval()
Tick ==
  /\ Live
  /\ flushInterval # Null
  /\ now >= flushInterval
  /\ RunCycle([Obj EXCEPT !.flushInterval = NextTickAt], "tick")
  /\ UNCHANGED <<transport, startup, phase, config, requestsPerTick, tickIntervalMs, now, shutdown, nextId>>

\* flush(): one manual dispatch cycle
Flush ==
  /\ Live
  /\ shutdown.pc = "idle"
  /\ Len(orphanBackoff) < MaxBackoffTimers
  /\ RunCycle(Obj, "flush")
  /\ UNCHANGED <<transport, startup, phase, config, requestsPerTick, tickIntervalMs, now, shutdown, nextId>>

\* the setTimeout callback armed by addMessage()
BufferTimerFires ==
  /\ Live
  /\ bufferTimer >= 0
  /\ now >= bufferTimer
  /\ LET S == FlushBuffer([Obj EXCEPT !.bufferTimer = Stale])
     IN /\ Commit(S)
        /\ hist' = HistEnter(hist, S, <<>>)
  /\ UNCHANGED <<transport, startup, phase, config, requestsPerTick, tickIntervalMs, inflight, now, shutdown, nextId>>

\* the setTimeout callback armed in the backoff branch of processTick():
\* k = 0 is the timeout the field references, k > 0 one whose handle was
\* overwritten; either way the callback clears the field
BackoffTimerFires ==
  /\ Live
  /\ \E k \in 0..Len(orphanBackoff) :
       /\ IF k = 0 THEN backoffTimeout >= 0 /\ now >= backoffTimeout
                   ELSE now >= orphanBackoff[k]
       /\ LET rest == IF k = 0 THEN orphanBackoff ELSE RemoveAt(orphanBackoff, k)
              S == [Obj EXCEPT
                      !.orphanBackoff = IF k # 0 /\ backoffTimeout # Null
                                        THEN InsertSorted(rest, backoffTimeout)
                                        ELSE rest,
                      !.backoffTimeout = Null]
          IN Commit(StartInterval(S))
  /\ UNCHANGED <<transport, startup, phase, config, requestsPerTick, tickIntervalMs, inflight, now, shutdown, nextId, hist>>

\* the sender's promise settles: the rest of processTick() runs; when the
\* shutdown loop awaited this cycle it goes on to its delay
SendCompletes ==
  /\ Live
  /\ \E f \in inflight, r \in Results :
       /\ now >= f.at + MinLatencyMs
       /\ LET S == CompleteOp(Obj, f.batch, r)
          IN /\ Commit(S)
             /\ hist' = HistEnter(HistAnswer(hist, f.batch, r), S, <<>>)
       /\ inflight' = inflight \ {f}
       /\ shutdown' = IF f.caller = "shutdown"
                      THEN [shutdown EXCEPT !.pc = "sleep", !.attempts = @ + 1,
                                            !.wake = now + SHUTDOWN_RETRY_DELAY_MS]
                      ELSE shutdown
  /\ UNCHANGED <<transport, startup, phase, config, requestsPerTick, tickIntervalMs, now, nextId>>

\* commit one pass of the shutdown loop
CommitLoop(L, h) ==
  /\ Commit(L.S)
  /\ shutdown' = L.sd
  /\ phase' = IF L.sd.pc = "exit" THEN "exited" ELSE phase
  /\ inflight' = IF L.batch # <<>>
                 THEN inflight \cup {[batch |-> L.batch, caller |-> "shutdown", at |-> now]}
                 ELSE inflight
  /\ hist' = LET h1 == HistCycle(h, L.branch)
             IN IF L.batch # <<>>
                THEN HistCall(HistEnter(h1, L.S, L.batch), L.batch, TRUE)
                ELSE HistEnter(h1, L.S, <<>>)

\* gracefulShutdown(messageQueue) on SIGINT/SIGTERM, up to its first await
GracefulShutdown ==
  /\ Live
  /\ shutdown.pc = "idle"
  /\ nextId <= MaxSubmitsBeforeShutdown
  /\ LET S == FlushBuffer(BeginShutdownOp(Obj))
         sd == [shutdown EXCEPT !.startTime = now, !.attempts = 0]
         h == [hist EXCEPT !.drainOne =
                 /\ Len(currentBuffer) = 1 /\ messageQueue = <<>>
                 /\ inflight = {} /\ ~webhookInvalid /\ CanSendNow(Obj)]
     IN CommitLoop(LoopIter(S, sd), h)
  /\ UNCHANGED <<transport, startup, config, requestsPerTick, tickIntervalMs, now, nextId>>

\* the delay between two drain attempts has elapsed: next pass of the loop
ShutdownWakes ==
  /\ Live
  /\ shutdown.pc = "sleep"
  /\ now >= shutdown.wake
  /\ CommitLoop(LoopIter(Obj, [shutdown EXCEPT !.wake = Null]), hist)
  /\ UNCHANGED <<transport, startup, config, requestsPerTick, tickIntervalMs, now, nextId>>

\* deadlines of the pending timers
Dues ==
  {x \in {flushInterval, bufferTimer, backoffTimeout, shutdown.wake}
            \cup SeqRange(orphanBackoff) : x >= 0}

SetMin(A) == CHOOSE x \in A : \A y \in A : x <= y

\* the clock moves on to the next deadline, or by a fixed step when that
\* comes first; timers fire at their deadline
Advance ==
  /\ Live
  /\ \A x \in Dues : x > now
  /\ \E d \in TimeSteps :
       /\ now' = SetMin({now + d} \cup Dues)
       /\ now' <= MaxTime
  /\ hist' = HistClock(hist, now')
  /\ UNCHANGED <<transport, startup, phase, config, requestsPerTick, tickIntervalMs, messageQueue,
                 requestHistory, flushInterval, isSending, webhookInvalid,
                 bufferTimer, currentBuffer, backoffTimeout, rateLimitedUntil,
                 characterCount, isShuttingDown, orphanBackoff, inflight,
                 shutdown, nextId>>

Next ==
  \/ \E len \in MsgLens(config) : AddMessage(len)
  \/ Tick
  \/ Flush
  \/ BufferTimerFires
  \/ BackoffTimerFires
  \/ SendCompletes
  \/ GracefulShutdown
  \/ ShutdownWakes
  \/ Advance

Spec == Init /\ [][Next]_vars

\* the queue driven by its timers only: no manual flush()
NextTick ==
  \/ \E len \in MsgLens(config) : AddMessage(len)
  \/ Tick
  \/ BufferTimerFires
  \/ BackoffTimerFires
  \/ SendCompletes
  \/ GracefulShutdown
  \/ ShutdownWakes
  \/ Advance

SpecTick == Init /\ [][NextTick]_vars

\* the queue left to its timers and the sender: no manual flush(), no
\* shutdown; the timers fire and the sender answers
NextLive ==
  \/ \E len \in MsgLens(config) : AddMessage(len)
  \/ Tick
  \/ BufferTimerFires
  \/ BackoffTimerFires
  \/ SendCompletes
  \/ Advance

SpecLive ==
  /\ Init /\ [][NextLive]_vars
  /\ WF_vars(Advance)
  /\ WF_vars(Tick)
  /\ WF_vars(BufferTimerFires)
  /\ WF_vars(BackoffTimerFires)
  /\ WF_vars(SendCompletes)

\* the constructor alone, over the configured rate pairs
InitCtor ==
  /\ transport = TransportIdle
  /\ startup = StartupIdle
  /\ phase = "new"
  /\ config \in CtorConfigs
  /\ requestsPerTick = 0
  /\ tickIntervalMs = 0
  /\ InitObj

\* new MessageQueue(config, sender)
Construct ==
  /\ phase = "new"
  /\ phase' = "live"
  /\ requestsPerTick' = RequestsPerTickOf(config)
  /\ tickIntervalMs' = TickIntervalMsOf(config)
  /\ UNCHANGED <<transport, startup, config, messageQueue, requestHistory, flushInterval, isSending,
                 webhookInvalid, bufferTimer, currentBuffer, backoffTimeout,
                 rateLimitedUntil, characterCount, isShuttingDown, orphanBackoff,
                 inflight, now, shutdown, nextId, hist>>

NextCtor == Construct

SpecCtor == InitCtor /\ [][NextCtor]_vars

\* submits of descriptions around the character limit, delivered by the
\* timers: no manual flush(), no shutdown
InitSubmit ==
  /\ transport = TransportIdle
  /\ startup = StartupIdle
  /\ phase = "live"
  /\ config \in SubmitConfigs
  /\ requestsPerTick = RequestsPerTickOf(config)
  /\ tickIntervalMs = TickIntervalMsOf(config)
  /\ InitObj

NextSubmit ==
  \/ \E len \in SubmitLens : AddMessage(len)
  \/ Tick
  \/ BufferTimerFires
  \/ BackoffTimerFires
  \/ SendCompletes
  \/ Advance

SpecSubmit == InitSubmit /\ [][NextSubmit]_vars

\* the unbuffered queue with a rate window that holds more than one call:
\* three seconds (the tick stays at the webhook's 2000 ms), with manual
\* flush() in between
HistoryConfigs ==
  { [buffer |-> FALSE, buffer_seconds |-> 1, queue_max |-> QueueMax,
     rate_limit_messages |-> 2, rate_limit_window_seconds |-> 3] }

InitHistory ==
  /\ transport = TransportIdle
  /\ startup = StartupIdle
  /\ phase = "live"
  /\ config \in HistoryConfigs
  /\ requestsPerTick = RequestsPerTickOf(config)
  /\ tickIntervalMs = TickIntervalMsOf(config)
  /\ InitObj

NextHistory ==
  \/ \E len \in MsgLens(config) : AddMessage(len)
  \/ Tick
  \/ Flush
  \/ BackoffTimerFires
  \/ SendCompletes
  \/ Advance

SpecHistory == InitHistory /\ [][NextHistory]_vars

\* the timer-driven queue fed with short descriptions (the drain does not
\* look at them), under the fairness the event loop gives: the clock moves
\* on and a timer that is due fires
DrainLens == {1}

NextDrain ==
  \/ \E len \in DrainLens : AddMessage(len)
  \/ Tick
  \/ BufferTimerFires
  \/ BackoffTimerFires
  \/ SendCompletes
  \/ GracefulShutdown
  \/ ShutdownWakes
  \/ Advance

SpecDrain ==
  /\ Init
  /\ [][NextDrain]_vars
  /\ WF_vars(Advance)
  /\ WF_vars(Tick)
  /\ WF_vars(BufferTimerFires)
  /\ WF_vars(BackoffTimerFires)
  /\ WF_vars(ShutdownWakes)

\* getUserName alone, over the batches of names
InitUserName ==
  /\ \E b \in Batches :
       transport = [TransportIdle EXCEPT !.pc = "call", !.messages = b]
  /\ startup = StartupIdle
  /\ phase = "new"
  /\ config \in {c \in CtorConfigs : c.rate_limit_messages = 1
                                       /\ c.rate_limit_window_seconds = 1}
  /\ requestsPerTick = 0
  /\ tickIntervalMs = 0
  /\ InitObj

\* username: getUserName(messages)
UserNameCall ==
  /\ transport.pc = "call"
  /\ transport' = [transport EXCEPT !.pc = "done",
                                    !.username = GetUserName(transport.messages)]
  /\ UNCHANGED <<startup, phase, config, requestsPerTick, tickIntervalMs, messageQueue,
                 requestHistory, flushInterval, isSending, webhookInvalid,
                 bufferTimer, currentBuffer, backoffTimeout, rateLimitedUntil,
                 characterCount, isShuttingDown, orphanBackoff, inflight, now,
                 shutdown, nextId, hist>>

NextUserName == UserNameCall

SpecUserName == InitUserName /\ [][NextUserName]_vars

\* sendToDiscord alone, over the answers of the webhook
InitTransport ==
  \* the arguments `messages` and `discord_url` (the empty text is null)
  /\ \E b \in { <<>>,
                << [name |-> <<"a">>, description |-> Description(1, 5)] >>,
                << [name |-> <<"a">>, description |-> Description(1, 5)],
                   [name |-> <<" ">>, description |-> Description(2, 0)] >> },
        u \in {"", "https://discord.com/api/webhooks/1/t"}, f \in Fetches :
       transport = [TransportIdle EXCEPT !.pc = "start", !.messages = b,
                                         !.discord_url = u, !.fetch = f]
  /\ startup = StartupIdle
  /\ phase = "new"
  /\ config \in {c \in CtorConfigs : c.rate_limit_messages = 1
                                       /\ c.rate_limit_window_seconds = 1}
  /\ requestsPerTick = 0
  /\ tickIntervalMs = 0
  /\ InitObj

\* the transport's call has returned: its promise resolved with `result`,
\* or rejected
Returned(t, outcome) ==
  [t EXCEPT !.pc = "returned", !.settled = outcome.settled,
            !.result = outcome.result]

\* sendToDiscord(messages, discord_url) up to `await fetch(...)`
SendToDiscordCall ==
  /\ transport.pc = "start"
  /\ transport' =
       IF Len(transport.messages) = 0
       THEN Returned(transport,
              [ settled |-> "resolved",
                result |-> [ success |-> TRUE,
                             rateLimitInfo |-> NoRateLimitInfo ] ])
       ELSE IF transport.discord_url = ""
       THEN Returned(transport,
              [ settled |-> "resolved",
                result |-> [ success |-> FALSE,
                             error |-> <<"Discord URL not configured">>,
                             rateLimitInfo |-> NoRateLimitInfo ] ])
       ELSE [transport EXCEPT
               !.pc = "fetch",
               !.content = Payload(transport.messages).content,
               !.username = Payload(transport.messages).username]
  /\ UNCHANGED <<startup, phase, config, requestsPerTick, tickIntervalMs, messageQueue,
                 requestHistory, flushInterval, isSending, webhookInvalid,
                 bufferTimer, currentBuffer, backoffTimeout, rateLimitedUntil,
                 characterCount, isShuttingDown, orphanBackoff, inflight, now,
                 shutdown, nextId, hist>>

\* fetch() settles, or the timer aborts it after FETCH_TIMEOUT_MS
FetchSettles ==
  /\ transport.pc = "fetch"
  /\ LET f == transport.fetch
         t == [transport EXCEPT !.elapsed = Min(f.latency, FETCH_TIMEOUT_MS)]
     IN transport' =
          IF f.latency >= FETCH_TIMEOUT_MS
          THEN Returned(t, CatchBlock([name |-> "AbortError",
                                       message |-> "The operation was aborted."]))
          ELSE IF f.throws
          THEN Returned(t, CatchBlock([name |-> "FetchError",
                                       message |-> f.message]))
          ELSE IF f.response.status = 429
          THEN [t EXCEPT !.pc = "json"]
          ELSE Returned(t, [ settled |-> "resolved",
                             result |-> StatusResult(f.response) ])
  /\ UNCHANGED <<startup, phase, config, requestsPerTick, tickIntervalMs, messageQueue,
                 requestHistory, flushInterval, isSending, webhookInvalid,
                 bufferTimer, currentBuffer, backoffTimeout, rateLimitedUntil,
                 characterCount, isShuttingDown, orphanBackoff, inflight, now,
                 shutdown, nextId, hist>>

\* res.json() of the 429 branch settles
BodySettles ==
  /\ transport.pc = "json"
  /\ transport' = Returned(transport,
                     [ settled |-> "resolved",
                       result |-> RateLimitedResult(transport.fetch.response) ])
  /\ UNCHANGED <<startup, phase, config, requestsPerTick, tickIntervalMs, messageQueue,
                 requestHistory, flushInterval, isSending, webhookInvalid,
                 bufferTimer, currentBuffer, backoffTimeout, rateLimitedUntil,
                 characterCount, isShuttingDown, orphanBackoff, inflight, now,
                 shutdown, nextId, hist>>

NextTransport ==
  \/ SendToDiscordCall
  \/ FetchSettles
  \/ BodySettles

SpecTransport == InitTransport /\ [][NextTransport]_vars

\* the rest of the state of a start-up specification: no queue yet
NoQueue ==
  /\ transport = TransportIdle
  /\ phase = "new"
  /\ config \in {c \in CtorConfigs : c.rate_limit_messages = 1
                                       /\ c.rate_limit_window_seconds = 1}
  /\ requestsPerTick = 0
  /\ tickIntervalMs = 0
  /\ InitObj

\* loadConfig alone, over the values of the environment variable
InitConfig ==
  /\ \E e \in Envs : startup = [StartupIdle EXCEPT !.pc = "env", !.env = e]
  /\ NoQueue

\* loadConfig()
LoadConfig ==
  /\ startup.pc = "env"
  /\ LET loaded == LoadConfigOp(startup.cachedConfig, startup.env)
     IN startup' = [startup EXCEPT
                      !.pc = "loaded",
                      !.config = loaded,
                      !.source = IF startup.cachedConfig.set THEN @
                                 ELSE startup.env,
                      !.cachedConfig = [set |-> TRUE, value |-> loaded]]
  /\ UNCHANGED <<transport, phase, config, requestsPerTick, tickIntervalMs,
                 messageQueue, requestHistory, flushInterval, isSending,
                 webhookInvalid, bufferTimer, currentBuffer, backoffTimeout,
                 rateLimitedUntil, characterCount, isShuttingDown,
                 orphanBackoff, inflight, now, shutdown, nextId, hist>>

\* the environment variable is set to another value before the next call
SetEnv ==
  /\ startup.pc = "loaded"
  /\ \E e \in Envs \ {startup.env} :
       startup' = [startup EXCEPT !.pc = "env", !.env = e]
  /\ UNCHANGED <<transport, phase, config, requestsPerTick, tickIntervalMs,
                 messageQueue, requestHistory, flushInterval, isSending,
                 webhookInvalid, bufferTimer, currentBuffer, backoffTimeout,
                 rateLimitedUntil, characterCount, isShuttingDown,
                 orphanBackoff, inflight, now, shutdown, nextId, hist>>

NextConfig ==
  \/ LoadConfig
  \/ SetEnv

SpecConfig == InitConfig /\ [][NextConfig]_vars

\* isValidDiscordWebhookUrl alone, over the URLs
InitWebhookUrl ==
  /\ \E u \in Urls, t \in BOOLEAN :
       startup = [StartupIdle EXCEPT !.pc = "url", !.url = u, !.isTestEnv = t]
  /\ NoQueue

\* isValidDiscordWebhookUrl(url)
ValidateUrl ==
  /\ startup.pc = "url"
  /\ startup' = [startup EXCEPT
                   !.pc = "validated",
                   !.valid = IsValidDiscordWebhookUrl(startup.url,
                                                      startup.isTestEnv)]
  /\ UNCHANGED <<transport, phase, config, requestsPerTick, tickIntervalMs,
                 messageQueue, requestHistory, flushInterval, isSending,
                 webhookInvalid, bufferTimer, currentBuffer, backoffTimeout,
                 rateLimitedUntil, characterCount, isShuttingDown,
                 orphanBackoff, inflight, now, shutdown, nextId, hist>>

NextWebhookUrl == ValidateUrl

SpecWebhookUrl == InitWebhookUrl /\ [][NextWebhookUrl]_vars

\* ------------------------------------------------------------- properties
Flights == UNION {SeqRange(f.batch) : f \in inflight}
Queued == SeqRange(messageQueue)
NewFlights == inflight' \ inflight

\* C1: while backoff is active (now < rateLimitedUntil) no step, and so no
\* dispatch cycle of any kind, hands a batch to the sender or takes a message
\* out of the dispatch queue.
C1_NoSendInBackoff ==
  [][ (now < rateLimitedUntil) =>
        /\ NewFlights = {}
        /\ Len(messageQueue') >= Len(messageQueue)
        /\ SubSeq(messageQueue', 1, Len(messageQueue)) = messageQueue ]_vars

\* a dispatch cycle has run into the backoff with a message queued
C1_Witness ==
  /\ hist.lastCycle = "backoff"
  /\ now < rateLimitedUntil
  /\ messageQueue # <<>>
  /\ inflight = {}

\* C2: once the sender has answered permanent-invalid (404), no later step
\* starts a sender call.
C2_NoSendAfter404 == [][ hist.got404 => NewFlights = {} ]_vars

\* after the 404 a message was queued and a dispatch cycle ran
C2_Witness ==
  /\ hist.got404
  /\ hist.lastCycle = "skip"
  /\ messageQueue # <<>>
  /\ ~isSending

\* C3: a message that has had 6 failed or rate-limited answers is neither in
\* the dispatch queue nor handed to the sender again, and no message is
\* handed to the sender more than 6 times.
C3_RetryCap ==
  /\ \A m \in Queued \cup Flights : m.id \notin hist.capped
  /\ \A i \in MsgIds : hist.calls[i] <= MAX_RETRY_ATTEMPTS + 1

\* some message has been dropped after its 6th failed answer
C3_Witness == hist.capped # {}

\* C4: with buffering enabled every message in the dispatch queue or handed
\* to the sender has a content length, newlines included, of at most 2000.
C4_CombinedWithinLimit ==
  config.buffer =>
    \A m \in Queued \cup Flights : m.len <= DISCORD_MESSAGE_CHAR_LIMIT

\* before the window timer could fire, a submit flushed a one-message buffer
\* on its own because appending would have passed the limit
C4_Witness ==
  /\ config.buffer
  /\ now < config.buffer_seconds * 1000
  /\ \E m \in Queued \cup Flights : Len(m.parts) = 1 /\ m.len < DISCORD_MESSAGE_CHAR_LIMIT
  /\ currentBuffer # <<>>

\* C5: when shutdown is invoked with one message pending in the buffer under
\* a 5-second window (nothing queued or in flight, no backoff, breaker not
\* set), the drain has handed it to the sender by the time the process exits.
C5_ShutdownDrainSends ==
  (phase = "exited" /\ hist.drainOne /\ config.buffer_seconds = 5)
    => hist.drainSent

\* C6: at most one sender call is outstanding; while one is, no step starts
\* another and a dispatch cycle (tick, flush, drain) leaves the queue alone.
C6_SingleFlight ==
  [][ /\ Cardinality(inflight') <= 1
      /\ isSending => NewFlights = {}
      /\ (isSending /\ (Tick \/ Flush \/ ShutdownWakes))
           => messageQueue' = messageQueue ]_vars

\* a dispatch cycle was skipped because a delivery is in flight
C6_Witness ==
  /\ inflight # {}
  /\ isSending
  /\ hist.lastCycle = "skip"
  /\ messageQueue # <<>>
  /\ ~webhookInvalid /\ ~isShuttingDown

\* C7: with dispatch cycles triggered by the timers only, a sender call is
\* started only when the previous one is at least tickIntervalMs old, and
\* tickIntervalMs is at least 2000.
C7_TickSpacing ==
  [][ NewFlights # {} =>
        /\ hist.lastCallAt = Null
        /\ tickIntervalMs >= 2000 ]_vars

\* a second call was made after a delivery
C7_Witness ==
  /\ inflight # {}
  /\ hist.delivered # {}
  /\ hist.lastCallAt = now

EntryPos(id) == CHOOSE i \in 1..Len(hist.entered) : hist.entered[i] = id

\* C9: the dispatch queue is in order of entry, and a batch that is with the
\* sender precedes everything queued; so messages are handed over in order of
\* entry and a failed batch goes back ahead of what was pushed meanwhile.
C9_FifoWithHeadRequeue ==
  /\ \A i, j \in 1..Len(messageQueue) :
       i < j => EntryPos(messageQueue[i].id) < EntryPos(messageQueue[j].id)
  /\ \A b \in Flights, m \in Queued : EntryPos(b.id) < EntryPos(m.id)

\* a failed batch is back at the head, ahead of a message pushed during its flight
C9_Witness ==
  /\ inflight = {}
  /\ Len(messageQueue) >= 2
  /\ messageQueue[1].retry >= 1
  /\ messageQueue[1].id \notin hist.raced
  /\ messageQueue[2].id \in hist.raced

\* C10: a message carried by a sender call that returned success is in
\* neither the dispatch queue nor the buffer and is not with the sender again.
C10_NoDoubleSend ==
  \A m \in Queued \cup Flights \cup SeqRange(currentBuffer) :
    SeqRange(m.parts) \cap hist.delivered = {}

\* after a delivery another message is with the sender
C10_Witness ==
  /\ hist.delivered # {}
  /\ inflight # {}

\* C11: when the window timer fires on a buffer of k messages, exactly one
\* message is appended to the dispatch queue and the buffer is emptied; its
\* description is the k submitted descriptions, whole and in submission
\* order, with a line feed between neighbours; and every sender call carries
\* one whole queue entry, so the combined message goes out in a single call.
C11_WindowCombines ==
  [][ /\ (BufferTimerFires /\ currentBuffer # <<>>) =>
           LET k == Len(currentBuffer)
               m == messageQueue'[Len(messageQueue')]
               d == m.description
           IN /\ messageQueue' = Append(messageQueue, m)
              /\ currentBuffer' = <<>>
              /\ m.parts = [i \in 1..k |-> currentBuffer[i].id]
              /\ \A i \in 1..(k - 1) : m.parts[i] < m.parts[i + 1]
              /\ Len(d) = 2 * k - 1
              /\ \A i \in 1..k :
                   /\ d[2 * i - 1].src = "description"
                   /\ d[2 * i - 1].of = m.parts[i]
                   /\ d[2 * i - 1].from = 1
                   /\ d[2 * i - 1].to = d[2 * i - 1].size
              /\ \A i \in 1..(k - 1) : d[2 * i] = LineFeed
      /\ \A f \in NewFlights :
           /\ Len(f.batch) = 1
           /\ f.batch[1] = messageQueue[1] ]_vars

\* a message combined from two submits by the window timer is with the sender
C11_Witness ==
  /\ config.buffer
  /\ config.queue_max = DEFAULT_QUEUE_MAX
  /\ \E f \in inflight : Len(f.batch) = 1 /\ Len(f.batch[1].parts) >= 2

\* the messages held by the buffer, the dispatch queue and the sender
Held == SeqRange(currentBuffer) \cup Queued \cup Flights

\* the text a description of n characters submitted as id must be stored as
StoredAs(id, n) ==
  IF n > DISCORD_MESSAGE_CHAR_LIMIT
  THEN <<Slice(id, n, 1, 1997), Ellipsis>>
  ELSE <<Slice(id, n, 1, n)>>

\* C12: a submit of a description longer than 2000 characters stores, with
\* or without buffering, a message whose description is the first 1997
\* submitted characters followed by "...", 2000 characters in all; a shorter
\* one is stored whole.  What the buffer, the queue and the sender hold
\* afterwards is still that text: a truncated one alone in its message, a
\* whole one possibly between line feeds, and never followed by "...".
C12_TruncatedTo2000 ==
  [][ /\ \A n \in SubmitLens :
           (AddMessage(n) /\ ~isShuttingDown) =>
             \E m \in SeqRange(currentBuffer') \cup SeqRange(messageQueue') :
               /\ m.parts[Len(m.parts)] = nextId'
               /\ SubSeq(m.description,
                         Len(m.description) - Len(StoredAs(nextId', n)) + 1,
                         Len(m.description)) = StoredAs(nextId', n)
               /\ n > DISCORD_MESSAGE_CHAR_LIMIT =>
                    /\ m.description = StoredAs(nextId', n)
                    /\ StrLen(m.description) = DISCORD_MESSAGE_CHAR_LIMIT
      /\ \A m \in Held' :
           /\ m.len = StrLen(m.description)
           /\ \A i \in 1..Len(m.description) :
                LET p == m.description[i]
                IN /\ p = Ellipsis => (i = 2 /\ Len(m.description) = 2)
                   /\ p.src = "description" =>
                        /\ p.of \in SeqRange(m.parts)
                        /\ IF p.size > DISCORD_MESSAGE_CHAR_LIMIT
                           THEN /\ m.description = StoredAs(p.of, p.size)
                                /\ m.len = DISCORD_MESSAGE_CHAR_LIMIT
                           ELSE <<p>> = StoredAs(p.of, p.size) ]_vars

\* with buffering, a description of 2001 characters is with the sender,
\* truncated
C12_Witness ==
  /\ config.buffer
  /\ \E f \in inflight :
       /\ f.batch[1].description = <<Slice(f.batch[1].id, 2001, 1, 1997), Ellipsis>>
       /\ f.batch[1].len = 2000

\* C13: a manual dispatch cycle that finds the dispatch queue empty calls
\* the sender zero times, and a second cycle run right after it calls the
\* sender zero times and leaves the queue object, its pending timers
\* included, exactly as the first one left it.
C13_EmptyFlushIdempotent ==
  [][ (Flush /\ messageQueue = <<>>) =>
        /\ NewFlights = {}
        /\ messageQueue' = <<>>
        /\ ProcessTickOp(Obj').batch = <<>>
        /\ ProcessTickOp(Obj').S = Obj' ]_vars

\* C14: a submit made once shutdown has begun changes nothing of the queue
\* object: buffer, character count and dispatch queue stay as they are and
\* neither the window timer nor the recurring tick is armed.
C14_SubmitRejectedInShutdown ==
  [][ (isShuttingDown /\ nextId' # nextId) =>
        /\ currentBuffer' = currentBuffer
        /\ characterCount' = characterCount
        /\ messageQueue' = messageQueue
        /\ bufferTimer' = bufferTimer /\ bufferTimer < 0
        /\ flushInterval' = flushInterval /\ flushInterval = Null
        /\ Obj' = Obj ]_vars

\* a message was submitted while the drain was running (shutdown begins
\* after at most MaxSubmitsBeforeShutdown submits): it is held nowhere
C14_Witness ==
  /\ isShuttingDown
  /\ phase = "live"
  /\ nextId > MaxSubmitsBeforeShutdown
  /\ messageQueue # <<>>
  /\ \A m \in Held : nextId \notin SeqRange(m.parts)

\* C15: from the moment shutdown has begun no timer of the queue is pending:
\* the recurring tick, the window timer and every backoff one-shot timer
\* have been cleared and none is armed afterwards.
C15_NoTimerInShutdown ==
  isShuttingDown =>
    /\ flushInterval = Null
    /\ bufferTimer < 0
    /\ backoffTimeout = Null
    /\ orphanBackoff = <<>>

\* the queue object as the drain loop sees it when it tests its condition
LoopHead ==
  IF shutdown.pc = "idle" THEN FlushBuffer(BeginShutdownOp(Obj)) ELSE Obj

\* the longest a drain of MAX_SHUTDOWN_ATTEMPTS empty cycles lasts
DrainSpan == MAX_SHUTDOWN_ATTEMPTS * SHUTDOWN_RETRY_DELAY_MS

\* C16: the drain runs at most 50 dispatch cycles; each time it tests its
\* condition the process exits exactly when the dispatch queue is empty, the
\* breaker is set, 50 cycles have been run or more than 5000 ms have passed
\* since the drain began, and otherwise one more cycle is run; and a drain
\* that has begun ends with the exit of the process (for drains begun early
\* enough for the explored time span to hold them).
C16_DrainTerminates ==
  /\ [](shutdown.attempts <= MAX_SHUTDOWN_ATTEMPTS)
  /\ [][ (GracefulShutdown \/ ShutdownWakes) =>
           LET S == LoopHead
               start == IF shutdown.pc = "idle" THEN now ELSE shutdown.startTime
               n == IF shutdown.pc = "idle" THEN 0 ELSE shutdown.attempts
               stop == \/ Len(S.messageQueue) = 0
                       \/ S.webhookInvalid
                       \/ n >= MAX_SHUTDOWN_ATTEMPTS
                       \/ now - start > SHUTDOWN_TIMEOUT_MS
           IN /\ (phase' = "exited") <=> stop
              /\ ~stop => (shutdown'.pc = "await" \/ shutdown'.attempts = n + 1)
              /\ stop => Obj' = S ]_vars
  /\ (isShuttingDown /\ shutdown.startTime + DrainSpan <= MaxTime)
       ~> (phase = "exited")

\* the process has exited after 50 cycles with a message still queued
C16_Witness ==
  /\ phase = "exited"
  /\ shutdown.attempts = MAX_SHUTDOWN_ATTEMPTS
  /\ messageQueue # <<>>

\* C17: once the breaker is set no step (a submit without buffering, a
\* buffer flush) adds a message to the dispatch queue or arms the recurring
\* tick.
C17_NoQueueGrowthAfterBreaker ==
  [][ webhookInvalid =>
        /\ Len(messageQueue') <= Len(messageQueue)
        /\ (flushInterval = Null => flushInterval' = Null) ]_vars

\* a dispatch cycle has observed the backoff that is still running
Paused ==
  /\ now < rateLimitedUntil
  /\ hist.lastCycle = "backoff"
  /\ ~isShuttingDown

\* C18: from the first dispatch cycle that observes a backoff until the
\* backoff ends, the recurring tick is not armed and exactly one backoff
\* timer is pending, due at rateLimitedUntil, whatever is submitted, flushed
\* or cycled meanwhile; and the firing of the backoff timer arms the
\* recurring tick again.
C18_PausedWithOneWakeUp ==
  /\ [](Paused =>
          /\ flushInterval = Null
          /\ backoffTimeout = rateLimitedUntil
          /\ orphanBackoff = <<>>)
  /\ [][ (BackoffTimerFires /\ ~isShuttingDown) => flushInterval' # Null ]_vars

\* C19: webhookInvalid and isShuttingDown are false in the constructed
\* queue, and no step sets either of them back to false once it is true.
C19_FlagsOneWay ==
  /\ (~webhookInvalid /\ ~isShuttingDown)
  /\ [][ /\ webhookInvalid => webhookInvalid'
         /\ isShuttingDown => isShuttingDown' ]_vars

\* a queue whose breaker had tripped was shut down: both flags are set
C19_Witness ==
  /\ webhookInvalid
  /\ isShuttingDown
  /\ hist.got404
  /\ phase = "exited"

\* the name of message i without its leading and trailing white space
Trimmed(b, i) ==
  LET s == b[i].name
      P == {j \in 1..Len(s) : s[j] # " "}
  IN IF P = {} THEN <<>>
     ELSE SubSeq(s, CHOOSE j \in P : \A k \in P : j <= k,
                    CHOOSE j \in P : \A k \in P : j >= k)

\* the messages whose trimmed name is not empty and appears for the first time
FirstAppearances(b) ==
  {i \in 1..Len(b) :
     /\ Trimmed(b, i) # <<>>
     /\ \A j \in 1..(i - 1) : Trimmed(b, j) # Trimmed(b, i)}

\* the names of the first i messages that are kept, joined by ", "
RECURSIVE JoinedUpTo(_, _)
JoinedUpTo(b, i) ==
  IF i = 0 THEN <<>>
  ELSE LET before == JoinedUpTo(b, i - 1)
       IN IF i \notin FirstAppearances(b) THEN before
          ELSE IF before = <<>> THEN Trimmed(b, i)
          ELSE before \o <<",", " ">> \o Trimmed(b, i)

\* C20: the username computed for a batch is the trimmed names of its
\* messages, empty ones and repetitions left out, in the order of first
\* appearance and joined by ", "; when no name is left (all blank, or an
\* empty batch) it is "PM2 Discord Bot".
C20_UserName ==
  transport.pc = "done" =>
    LET b == transport.messages
    IN /\ FirstAppearances(b) # {} =>
            transport.username = JoinedUpTo(b, Len(b))
       /\ FirstAppearances(b) = {} =>
            transport.username = DEFAULT_USERNAME

\* a batch of three whose names need trimming and repeat: " a", "aa", "a "
\* gives "a, aa"
C20_Witness ==
  /\ transport.pc = "done"
  /\ transport.messages = <<[name |-> <<" ", "a">>], [name |-> <<"a", "a">>],
                           [name |-> <<"a", " ">>]>>
  /\ transport.username = <<"a", ",", " ", "a", "a">>

\* the call reached fetch(), and fetch() gave a response before the timeout
Answered ==
  /\ transport.pc = "returned"
  /\ transport.messages # <<>>
  /\ transport.discord_url # ""
  /\ ~transport.fetch.throws
  /\ transport.fetch.latency < FETCH_TIMEOUT_MS

\* result[field] is present and true
Flag(result, field) == field \in DOMAIN result /\ result[field]

\* C21: every response is classified into exactly one outcome: a 2xx status
\* (204 included) is a success, 429 is rate-limited, 404 is permanent-invalid,
\* any other status is a generic failure with a reason; in all four cases the
\* result carries the metadata of the rate-limit headers.
C21_StatusClassified ==
  Answered =>
    LET res == transport.fetch.response
        r == transport.result
    IN /\ res.status \in 200..299 =>
            /\ r.success
            /\ ~Flag(r, "rateLimited") /\ ~Flag(r, "webhookInvalid")
       /\ res.status = 429 =>
            /\ ~r.success
            /\ Flag(r, "rateLimited") /\ ~Flag(r, "webhookInvalid")
       /\ res.status = 404 =>
            /\ ~r.success
            /\ ~Flag(r, "rateLimited") /\ Flag(r, "webhookInvalid")
       /\ res.status \notin (200..299) \cup {429, 404} =>
            /\ ~r.success
            /\ ~Flag(r, "rateLimited") /\ ~Flag(r, "webhookInvalid")
            /\ "error" \in DOMAIN r /\ r.error # <<>>
       /\ r.rateLimitInfo = ParseRateLimitHeaders(res.headers)

\* C22: on a 429 the reported wait is the body's retry_after when the body
\* has one, else the value of the retry-after header when there is one,
\* else 0; the global flag is set when the body's global field or the
\* x-ratelimit-global header says so.
C22_WaitFromBodyThenHeader ==
  (Answered /\ transport.fetch.response.status = 429) =>
    LET res == transport.fetch.response
        r == transport.result
        wait == IF res.body.parses /\ "retry_after" \in DOMAIN res.body.value
                THEN res.body.value["retry_after"]
                ELSE IF "retry-after" \in DOMAIN res.headers
                     THEN ParseFloat(res.headers["retry-after"])
                     ELSE 0
        global == \/ res.body.parses /\ Flag(res.body.value, "global")
                  \/ /\ "x-ratelimit-global" \in DOMAIN res.headers
                     /\ res.headers["x-ratelimit-global"] = <<"t", "r", "u", "e">>
    IN /\ r.retryAfter = wait
       /\ global => r.isGlobal

\* C23: the call never rejects: after a network error, the abort of the
\* 5-second timeout or a body that does not parse, it resolves to a result;
\* for the timeout and the network error the result has success = false and
\* rateLimited = false.
C23_NeverThrows ==
  transport.pc = "returned" =>
    LET f == transport.fetch
        r == transport.result
        fetched == transport.messages # <<>> /\ transport.discord_url # ""
    IN /\ transport.settled = "resolved"
       /\ "success" \in DOMAIN r
       /\ (fetched /\ (f.throws \/ f.latency >= FETCH_TIMEOUT_MS)) =>
            /\ ~r.success
            /\ "rateLimited" \in DOMAIN r /\ ~r.rateLimited
       /\ (fetched /\ f.latency >= FETCH_TIMEOUT_MS) =>
            transport.elapsed = FETCH_TIMEOUT_MS

\* a network error, the timeout and an unparseable 429 body have each been
\* turned into a result (here: the network error)
C23_Witness ==
  /\ transport.pc = "returned"
  /\ transport.fetch.throws
  /\ transport.fetch.latency < FETCH_TIMEOUT_MS
  /\ transport.settled = "resolved"
  /\ "error" \in DOMAIN transport.result
  /\ transport.result.error = <<"Network error">>

\* the value the configuration should get for a key: clamped when the
\* configured value is a number or the text of one, else the default
IsNumeral(s) == s # <<>> /\ \A i \in 1..Len(s) : s[i] \in DOMAIN DigitValue

Configured(fields, key, min, max) ==
  LET v == fields[key]
      n == IF v.type = "number" THEN v.num ELSE DecimalValue(Trim(v.text), 0)
      valid == \/ v.type = "number"
               \/ v.type = "string" /\ IsNumeral(Trim(v.text))
  IN IF key \notin DOMAIN fields \/ ~valid THEN defaultConfig[key]
     ELSE IF n < min THEN min
     ELSE IF n > max THEN max
     ELSE n

\* C24: loadConfig returns buffer_seconds within [1, 5] and queue_max within
\* [10, 100]: a configured value below the minimum becomes the minimum, one
\* above the maximum the maximum, one inside the range is kept, and one that
\* is not a valid number gives the default (1 and 100).
C24_ConfigClamped ==
  startup.pc = "loaded" =>
    LET fields == IF startup.source.kind = "object" THEN startup.source.fields
                  ELSE NoKeys
    IN /\ startup.config.buffer_seconds \in 1..5
       /\ startup.config.queue_max \in 10..100
       /\ startup.config.buffer_seconds =
            Configured(fields, "buffer_seconds", 1, 5)
       /\ startup.config.queue_max = Configured(fields, "queue_max", 10, 100)

\* the host is discord.com or discordapp.com, or a host below one of them
DiscordHost(labels) ==
  /\ Len(labels) >= 2
  /\ SubSeq(labels, Len(labels) - 1, Len(labels))
       \in { <<"discord", "com">>, <<"discordapp", "com">> }

\* C25: outside the test environment a destination is accepted only if it
\* is an HTTPS URL whose host belongs to discord.com or discordapp.com and
\* whose path is not the root; every other input (not a string, empty,
\* malformed, http, a host of another domain, no path) is rejected.
C25_OnlyDiscordWebhooks ==
  (startup.pc = "validated" /\ ~startup.isTestEnv) =>
    LET u == startup.url
    IN startup.valid <=>
         /\ u.isString
         /\ u.scheme = "https"
         /\ DiscordHost(u.labels)
         /\ u.path \notin { <<>>, <<"/">> }

Pending ==
  BatchParts(currentBuffer) \cup BatchParts(messageQueue)
    \cup UNION {BatchParts(f.batch) : f \in inflight}

\* a timer or an answer of the sender is still to come
Awaited == Dues # {} \/ inflight # {}

\* C27: with fair timers, a sender that always answers, no shutdown and no
\* further submits, every accepted message reaches a terminal state
\* (delivered, dropped at the retry cap, discarded by the breaker): none
\* stays in the buffer or the dispatch queue for ever.  Within the horizon
\* of the model: a message is settled, or the clock reaches MaxTime with a
\* timer or an answer still to come.
C27_EveryMessageSettles ==
  \A id \in MsgIds :
    (id \in Pending) ~> (id \notin Pending \/ (now = MaxTime /\ Awaited))

\* C28: outside shutdown and with the breaker not set, a non-empty dispatch
\* queue always has a wake-up pending: the recurring tick or the backoff
\* one-shot timer is armed.
C28_QueueHasWakeUp ==
  (Live /\ ~isShuttingDown /\ ~webhookInvalid /\ messageQueue # <<>>) =>
    (flushInterval # Null \/ backoffTimeout >= 0)

\* the queue waits in backoff: the tick is stopped, the one-shot timer armed
C28_Witness ==
  /\ Live /\ ~isShuttingDown /\ ~webhookInvalid
  /\ messageQueue # <<>>
  /\ flushInterval = Null
  /\ backoffTimeout >= 0
  /\ now < backoffTimeout

\* the messages of q with the given id
WithId(q, id) == {m \in SeqRange(q) : m.id = id}

\* C29: every message in the dispatch queue has retryAttempts <= 5; the
\* counter equals the number of failed or rate-limited answers the message
\* has had, so it grows by exactly 1 with each; a newly submitted or newly
\* combined message starts at 0; a message whose counter would become 6 is
\* dropped instead of requeued.
C29_RetryCounter ==
  /\ [](\A m \in Queued \cup Flights :
          m.retry \in 0..MAX_RETRY_ATTEMPTS /\ m.retry = hist.fails[m.id])
  /\ [](\A m \in SeqRange(currentBuffer) : m.retry = 0)
  /\ [][ \A m \in SeqRange(messageQueue') :
            m.id \notin BatchIds(messageQueue) \cup {b.id : b \in Flights}
              => m.retry = 0 ]_vars
  /\ [][ \A f \in inflight \ inflight' : \A i \in 1..Len(f.batch) :
            LET m == f.batch[i]
                back == WithId(messageQueue', m.id)
            IN /\ back \subseteq {[m EXCEPT !.retry = m.retry + 1]}
               /\ m.retry = MAX_RETRY_ATTEMPTS => back = {} ]_vars

\* a message is queued for its last attempt
C29_Witness ==
  /\ \E m \in Queued : m.retry = MAX_RETRY_ATTEMPTS
  /\ inflight = {}

\* the batch with every counter incremented
RECURSIVE Counted(_)
Counted(b) ==
  IF b = <<>> THEN <<>>
  ELSE <<[Head(b) EXCEPT !.retry = @ + 1]>> \o Counted(Tail(b))

\* C30: a rate-limited answer with a wait d > 0 sets the deadline to
\* now + d, makes canSendNow false with 0 < getDelayUntilNextSend <= d, and
\* puts the batch back at the head of the dispatch queue with every counter
\* incremented: with the counters within the cap, the same messages in the
\* same order as before the cycle.
C30_RateLimitedRequeue ==
  /\ [](now < rateLimitedUntil =>
          /\ ~CanSendNow(Obj)
          /\ DelayUntilNextSend(Obj) > 0
          /\ \E d \in RetryAfterMs : DelayUntilNextSend(Obj) <= d)
  /\ [][ \A f \in inflight \ inflight' : \A r \in Results :
            ( /\ r.rateLimited /\ r.retryAfter > 0 /\ ~r.throws
              /\ Obj' = CompleteOp(Obj, f.batch, r) )
            => /\ rateLimitedUntil' = now + r.retryAfter
               /\ ~CanSendNow(Obj')
               /\ DelayUntilNextSend(Obj') = r.retryAfter
               /\ (\A i \in 1..Len(f.batch) :
                     f.batch[i].retry < MAX_RETRY_ATTEMPTS)
                  => messageQueue' = Counted(f.batch) \o messageQueue ]_vars
  /\ [][ \A f \in inflight' \ inflight : f.batch \o messageQueue' = messageQueue ]_vars

\* a rate-limited batch is back at the head, its counter incremented, ahead
\* of a message pushed while it was with the sender
C30_Witness ==
  /\ now < rateLimitedUntil
  /\ inflight = {}
  /\ Len(messageQueue) = 2
  /\ messageQueue[1].retry = 1
  /\ messageQueue[2].retry = 0
  /\ hist.raced # {}

\* the answer is a failure that is neither a rate limit nor a 404
GenericFailure(r) ==
  ~r.throws /\ ~r.success /\ ~r.rateLimited /\ ~r.webhookInvalid

\* C31: a generic failure (not rate-limited, not a 404) puts the batch back
\* at the head of the dispatch queue with every counter incremented (a
\* message past the cap is dropped) and leaves the backoff state as it was:
\* the deadline keeps its value, no backoff timer is armed or cleared, the
\* breaker stays unset, the tick and the window timer are not touched.
C31_GenericFailureRequeue ==
  [][ \A f \in inflight \ inflight' : \A r \in Results :
        (GenericFailure(r) /\ Obj' = CompleteOp(Obj, f.batch, r))
        => /\ (\A i \in 1..Len(f.batch) : f.batch[i].retry < MAX_RETRY_ATTEMPTS)
                => messageQueue' = Counted(f.batch) \o messageQueue
           /\ (\A i \in 1..Len(f.batch) : f.batch[i].retry = MAX_RETRY_ATTEMPTS)
                => messageQueue' = messageQueue
           /\ rateLimitedUntil' = rateLimitedUntil
           /\ backoffTimeout' = backoffTimeout
           /\ orphanBackoff' = orphanBackoff
           /\ ~webhookInvalid'
           /\ flushInterval' = flushInterval
           /\ bufferTimer' = bufferTimer
           /\ ~isSending' ]_vars

\* a message failed once for a reason other than a positive rate limit and
\* is back in the queue; the queue has never been in backoff
C31_Witness ==
  /\ inflight = {}
  /\ rateLimitedUntil = 0
  /\ backoffTimeout = Null
  /\ ~webhookInvalid
  /\ messageQueue # <<>>
  /\ messageQueue[1].retry = 1
  /\ now > 0

\* the message object of the submit of a description of len characters in
\* this step, as addMessage() stores it
Submitted(len) ==
  LET d == TruncateDescription(Description(nextId + 1, len))
  IN NewMessage(nextId + 1, StrLen(d), d)

\* appending msg to a non-empty buffer would make the joined text (the
\* contents and one newline per buffered message) longer than the limit
Overflows(msg) ==
  /\ currentBuffer # <<>>
  /\ SumLen(currentBuffer) + Len(currentBuffer) + msg.len
       > DISCORD_MESSAGE_CHAR_LIMIT

\* the step is a submit with buffering enabled
BufferedSubmit == nextId' = nextId + 1 /\ config.buffer /\ ~isShuttingDown

\* C32 as stated: when appending the submitted message to a non-empty buffer
\* would make the joined length exceed 2000, the buffer is flushed as its
\* own combined message and the new message is the only element of a fresh
\* buffer with a newly armed window timer; otherwise the message joins the
\* existing buffer.
C32_FlushBeforeOverflow ==
  [][ BufferedSubmit =>
        \E len \in SubmitLens :
          LET msg == Submitted(len)
          IN IF Overflows(msg)
             THEN /\ messageQueue' =
                       Append(messageQueue, CombinedMessage(currentBuffer))
                  /\ currentBuffer' = <<msg>>
                  /\ bufferTimer' = now + config.buffer_seconds * 1000
             ELSE \/ currentBuffer' = Append(currentBuffer, msg)
                  \/ /\ currentBuffer' = <<>>
                     /\ messageQueue' =
                          Append(messageQueue,
                                 CombinedMessage(Append(currentBuffer, msg)))
    ]_vars

\* C32 (amended): the buffer is flushed first exactly when appending would
\* make the joined length exceed 2000, and the message is then appended to
\* the emptied buffer, otherwise to the existing one.  Unless the buffer
\* thereby holds 2000 content characters or queue_max messages it stays,
\* with the window timer newly armed; a buffer that reached a threshold (a
\* message of 2000 characters alone does) is flushed at once as a combined
\* message of its own, leaving the buffer empty and no window timer.
C32_FlushBeforeOverflowAmended ==
  [][ BufferedSubmit =>
        \E len \in SubmitLens :
          LET msg == Submitted(len)
              first == IF Overflows(msg)
                       THEN Append(messageQueue, CombinedMessage(currentBuffer))
                       ELSE messageQueue
              buffer == IF Overflows(msg) THEN <<msg>>
                        ELSE Append(currentBuffer, msg)
          IN IF \/ SumLen(buffer) >= DISCORD_MESSAGE_CHAR_LIMIT
                \/ Len(buffer) >= config.queue_max
             THEN /\ messageQueue' = Append(first, CombinedMessage(buffer))
                  /\ currentBuffer' = <<>>
                  /\ bufferTimer' = Null
             ELSE /\ messageQueue' = first
                  /\ currentBuffer' = buffer
                  /\ bufferTimer' = now + config.buffer_seconds * 1000
    ]_vars

\* the second submit did not fit: the first message was flushed on its own,
\* the second waits alone in the buffer with the window timer armed
C32_Witness ==
  /\ now = 0
  /\ config.buffer
  /\ nextId = 2
  /\ Len(messageQueue) = 1
  /\ messageQueue[1].parts = <<1>>
  /\ messageQueue[1].len < DISCORD_MESSAGE_CHAR_LIMIT
  /\ Len(currentBuffer) = 1
  /\ currentBuffer[1].id = 2
  /\ bufferTimer = config.buffer_seconds * 1000

C34_CharacterCount ==
  /\ [](/\ characterCount = SumLen(currentBuffer)
        /\ \A i \in 1..Len(currentBuffer) :
             currentBuffer[i].len = StrLen(currentBuffer[i].description))
  /\ [](currentBuffer = <<>> => characterCount = 0)
  /\ [][ (currentBuffer # <<>> /\ currentBuffer' = <<>>)
           => characterCount' = 0 ]_vars

\* two messages wait in the buffer: the count is the sum of their lengths,
\* without the newline that will join them
C34_Witness ==
  /\ Len(currentBuffer) = 2
  /\ characterCount = currentBuffer[1].len + currentBuffer[2].len
  /\ characterCount > 2
  /\ characterCount = JoinLen(currentBuffer) - 1

\* the ids of the messages of a sequence, in order
Ids(buf) == [i \in 1..Len(buf) |-> buf[i].id]

\* the submitted messages held by the queue object, in order: those
\* absorbed in the messages of the dispatch queue, then the buffered ones
HeldParts == ConcatParts(messageQueue) \o Ids(currentBuffer)

\* the number of places that hold the submitted message id
Places(id) ==
  Cardinality({i \in 1..Len(HeldParts) : HeldParts[i] = id})
  + Cardinality({f \in inflight : id \in BatchParts(f.batch)})

\* C35: an accepted message is in the buffer or in exactly one combined
\* message.  While the queue holds it, it is in one place only: the buffer,
\* one message of the dispatch queue, or the batch with the sender; it
\* leaves only together with its whole combined message, when the sender
\* answers for it (delivered, dropped or discarded); a message not yet
\* submitted is nowhere.  A step that flushes the buffer puts all buffered
\* messages, in order, into one new combined message that is identified by
\* the first of them (its name, event and timestamp).
C35_AbsorbedOnce ==
  /\ [](\A id \in MsgIds :
          /\ Places(id) <= 1
          /\ id > nextId => Places(id) = 0
          /\ \A f \in inflight :
               Cardinality({i \in 1..Len(ConcatParts(f.batch)) :
                              ConcatParts(f.batch)[i] = id}) <= 1)
  /\ [][ (nextId' = nextId + 1 /\ ~isShuttingDown) => nextId' \in Pending' ]_vars
  /\ [][ \A id \in Pending \ Pending' :
           \E f \in inflight \ inflight' :
             /\ id \in BatchParts(f.batch)
             /\ BatchParts(f.batch) \cap Pending' = {} ]_vars
  /\ [][ (currentBuffer # <<>> /\ currentBuffer[1].id \notin BatchIds(currentBuffer'))
           => \E i \in 1..Len(messageQueue') :
                LET m == messageQueue'[i]
                IN /\ m.id = currentBuffer[1].id
                   /\ m.retry = 0
                   /\ \/ m.parts = Ids(currentBuffer)
                      \/ m.parts = Append(Ids(currentBuffer), nextId')
                   /\ \A j \in 1..Len(messageQueue') :
                        j # i => messageQueue'[j].id # m.id ]_vars

\* a combined message of two submitted messages is with the sender
C35_Witness ==
  \E f \in inflight :
    /\ Len(f.batch) = 1
    /\ f.batch[1].parts = <<1, 2>>
    /\ f.batch[1].id = 1
    /\ Pending = {1, 2}

\* C36: with buffering disabled, a submit outside shutdown appends the
\* message, as its own entry, at the tail of the dispatch queue; the buffer
\* stays empty and the window timer unarmed; the recurring tick is armed
\* afterwards: started when it was not running, left as it was otherwise.
C36_UnbufferedSubmit ==
  /\ [](~config.buffer => currentBuffer = <<>> /\ bufferTimer = Null)
  /\ [][ (nextId' = nextId + 1 /\ ~config.buffer /\ ~isShuttingDown) =>
           /\ \E len \in MsgLens(config) :
                messageQueue' = Append(messageQueue, Submitted(len))
           /\ currentBuffer' = <<>>
           /\ bufferTimer' = Null
           /\ flushInterval' # Null
           /\ flushInterval' = IF flushInterval # Null THEN flushInterval
                               ELSE now + tickIntervalMs ]_vars

\* two unbuffered submits are queued in their order, the second while the
\* tick armed by the first was running
C36_Witness ==
  /\ ~config.buffer
  /\ now > 0
  /\ Len(messageQueue) = 2
  /\ messageQueue[1].parts = <<1>>
  /\ messageQueue[2].parts = <<2>>
  /\ messageQueue[1].retry = 0
  /\ flushInterval # Null
  /\ flushInterval < now + tickIntervalMs

\* nothing is queued and nothing is with the sender
Idle == messageQueue = <<>> /\ inflight = {}

\* the explored time span ends before the next deadline
ClockStopped == \A d \in TimeSteps : SetMin({now + d} \cup Dues) > MaxTime

\* the tick's cycle finds the dispatch queue empty, with no backoff active
EmptyCycle ==
  Tick /\ ~TickSkipped(Obj) /\ CanSendNow(Obj) /\ messageQueue = <<>>

\* a submit or a flush of the buffer pushes a message onto the dispatch queue
Pushes == Len(messageQueue') > Len(messageQueue) /\ inflight' = inflight

\* C37 as stated: a cycle that finds the queue empty, with no backoff
\* active, stops the recurring tick; every later submit or buffer flush that
\* puts a message into the queue arms it again; an idle queue ends up with
\* no recurring tick running.
C37_IdleStopsTick ==
  /\ [][ EmptyCycle => flushInterval' = Null ]_vars
  /\ [][ Pushes =>
           /\ flushInterval' # Null
           /\ flushInterval = Null => flushInterval' = now + tickIntervalMs ]_vars
  /\ Idle ~> (flushInterval = Null \/ ~Idle \/ ClockStopped)

\* C37 (amended): as above, for the submits and buffer flushes outside
\* shutdown; the flush of the buffer made by the shutdown pushes its combined
\* message without arming the tick.
C37_IdleStopsTickAmended ==
  /\ [][ EmptyCycle => flushInterval' = Null ]_vars
  /\ [][ Pushes =>
           IF isShuttingDown' THEN flushInterval' = Null
           ELSE /\ flushInterval' # Null
                /\ flushInterval = Null => flushInterval' = now + tickIntervalMs
       ]_vars
  /\ Idle ~> (flushInterval = Null \/ ~Idle \/ ClockStopped)

\* the tick was stopped by a cycle that found the queue empty and has been
\* armed again by the submit that followed
C37_Witness ==
  /\ hist.lastCycle = "empty"
  /\ ~isShuttingDown
  /\ hist.delivered # {}
  /\ messageQueue # <<>>
  /\ messageQueue[1].retry = 0
  /\ flushInterval = now + tickIntervalMs

\* the entries of the request history that lie within the rate window
\* before now
InWindow(h) ==
  SelectSeq(h, LAMBDA t : now - t < config.rate_limit_window_seconds * 1000)

\* C38: a step hands at most one batch to the sender; a step that does adds
\* exactly one entry, stamped now, to the request history and removes the
\* entries that are a rate window old or older, so that all entries left lie
\* within the window before now; a step that calls no sender leaves the
\* history alone.  The history is therefore never longer than the number of
\* calls that fit into one window.
C38_RequestHistory ==
  /\ [][ Cardinality(inflight' \ inflight) <= 1 ]_vars
  /\ [][ IF inflight' \ inflight # {}
         THEN /\ requestHistory' = Append(InWindow(requestHistory), now)
              /\ \A i \in 1..Len(requestHistory') :
                   /\ requestHistory'[i] <= now
                   /\ now - requestHistory'[i]
                        < config.rate_limit_window_seconds * 1000
         ELSE requestHistory' = requestHistory ]_vars
  /\ [](/\ \A i \in 1..Len(requestHistory) : requestHistory[i] <= now
        /\ \A i, j \in 1..Len(requestHistory) :
             i < j => /\ requestHistory[i] < requestHistory[j]
                      /\ requestHistory[j] - requestHistory[i]
                           < config.rate_limit_window_seconds * 1000)

\* a second call within the window of the first: both are in the history
C38_Witness ==
  /\ inflight # {}
  /\ Len(requestHistory) = 2
  /\ requestHistory[2] = now
  /\ now - requestHistory[1] < config.rate_limit_window_seconds * 1000
  /\ hist.delivered # {}

\* C39: isSending is true exactly while a call of the sender is outstanding,
\* and at most one is; the step that ends a call clears the flag whatever
\* the answer (success, rate limit, failure, 404 or an exception).  When the
\* sender throws, the cycle ends normally: the queue is as the call left it
\* (the batch is not put back), nothing else of the queue object changes,
\* the process goes on, and a shutdown loop that awaited the cycle counts
\* the attempt and goes to its delay.
C39_InFlightFlag ==
  /\ [](isSending <=> inflight # {})
  /\ [](Cardinality(inflight) <= 1)
  /\ [][ \A f \in inflight \ inflight' : ~isSending' /\ inflight' = {} ]_vars
  /\ [][ \A f \in inflight \ inflight' : \A r \in Results :
           (r.throws /\ Obj' = CompleteOp(Obj, f.batch, r)) =>
             /\ Obj' = [Obj EXCEPT !.isSending = FALSE]
             /\ messageQueue' = messageQueue
             /\ \A i \in 1..Len(messageQueue') :
                  messageQueue'[i].id \notin BatchIds(f.batch)
             /\ phase' = phase
             /\ IF f.caller = "shutdown"
                THEN /\ shutdown'.pc = "sleep"
                     /\ shutdown'.attempts = shutdown.attempts + 1
                ELSE shutdown' = shutdown ]_vars

\* the sender threw on the only message submitted: the call is over, the
\* flag is clear and the message is in no queue, neither delivered nor
\* given up after retries
C39_Witness ==
  /\ nextId = 1
  /\ requestHistory # <<>>
  /\ inflight = {}
  /\ ~isSending
  /\ messageQueue = <<>>
  /\ currentBuffer = <<>>
  /\ hist.delivered = {}
  /\ hist.capped = {}
  /\ ~hist.got404
  /\ ~webhookInvalid

\* every message the queue holds or has handed to the sender
HeldMessages ==
  SeqRange(messageQueue) \cup SeqRange(currentBuffer)
    \cup UNION {SeqRange(f.batch) : f \in inflight}

\* C40: rateLimitedUntil is 0 until the sender has been called and never
\* decreases.  It changes only in the step that ends a call of the sender,
\* with a rate-limited answer carrying a wait d > 0, and is then now + d; the
\* call had started at a time at or after the deadline then in force, as
\* every call does.  The deadline is one number of the queue; no message
\* carries one.
C40_BackoffDeadline ==
  /\ [](requestHistory = <<>> => rateLimitedUntil = 0)
  /\ [][ rateLimitedUntil' >= rateLimitedUntil ]_vars
  /\ [][ rateLimitedUntil' # rateLimitedUntil =>
           \E f \in inflight \ inflight' : \E r \in Results :
             /\ r.rateLimited /\ r.retryAfter > 0
             /\ Obj' = CompleteOp(Obj, f.batch, r)
             /\ rateLimitedUntil' = now + r.retryAfter
             /\ rateLimitedUntil <= f.at /\ f.at <= now ]_vars
  /\ [][ \A f \in inflight' \ inflight :
           now >= rateLimitedUntil /\ f.at = now ]_vars
  /\ [](/\ rateLimitedUntil \in Nat
        /\ \A m \in HeldMessages :
             DOMAIN m = {"id", "parts", "len", "retry", "description"})

\* the answer to the second attempt at a message was a rate limit: the call
\* is over and the deadline lies a wait ahead of the clock
C40_Witness ==
  /\ inflight = {}
  /\ messageQueue # <<>>
  /\ messageQueue[1].retry = 2
  /\ now >= 2 * 1000
  /\ rateLimitedUntil > now
  /\ rateLimitedUntil >= 2 * 3000

\* the shape of the state
TypeOK ==
  /\ phase \in {"new", "live", "exited"}
  /\ Cardinality(inflight) <= 1

====
